---- MODULE Spec2Model ----
(***************************************************************************)
(* A model of huandu/go-clone: the recursive clone engine (fast path and   *)
(* cycle-safe slow path), the per-allocator registries (struct-type cache, *)
(* opaque pointers, custom functions) and their mutators.                  *)
(*                                                                         *)
(* Memory is a sequence of one-word cells; an address is an index into it. *)
(* A struct or an array occupies consecutive cells, so the address of a    *)
(* member is the address of its aggregate plus the member's offset, as in  *)
(* the program (unsafe.Pointer(uintptr(ptr) + field.Offset)).              *)
(***************************************************************************)
EXTENDS Integers, Sequences, FiniteSets, TLC

VARIABLES
    heap,                   \* [mem, maps]: the cells and the contents of the maps
    src,                    \* the interface{} word handed to Clone / Slowly
    cachedStructTypes,      \* Allocator.cachedStructTypes    (type -> structType)
    cachedPointerTypes,     \* Allocator.cachedPointerTypes   (set of pointer types)
    cachedCustomFuncTypes,  \* Allocator.cachedCustomFuncTypes (type -> Func)
    wrappers,               \* the wrapper table: pointer returned by Wrap -> original
    allocators,             \* the allocators made by NewAllocator / FromHeap (name -> Allocator)
    goroutines,             \* the goroutines inside loadStructType (id -> call stack)
    last,                   \* the most recent call and its result
    hist                    \* what has happened so far (calls made, writes done)

vars == <<heap, src, cachedStructTypes, cachedPointerTypes, cachedCustomFuncTypes,
          wrappers, allocators, goroutines, last, hist>>

(***************************************************************************)
(* Words.  Every cell holds one word; all words have the same shape.       *)
(*   int        v = the number                                             *)
(*   ptr        v = the address pointed to, 0 for nil                      *)
(*   slice      v = base address (0 for nil), len, cap                     *)
(*   map        v = the map's identity (0 for nil)                         *)
(*   interface  t = dynamic type ("" for nil), the rest as the word held   *)
(*   chan       v = the address of the channel (0 for nil); the channel is *)
(*              a header cell with the number of queued elements (len) and *)
(*              the buffer capacity (cap), followed by the buffer's cells  *)
(***************************************************************************)
IntW(n)          == [k |-> "int",   v |-> n, len |-> 0, cap |-> 0, t |-> ""]
PtrW(a)          == [k |-> "ptr",   v |-> a, len |-> 0, cap |-> 0, t |-> ""]
SliceW(b, n, c)  == [k |-> "slice", v |-> b, len |-> n, cap |-> c, t |-> ""]
MapW(m)          == [k |-> "map",   v |-> m, len |-> 0, cap |-> 0, t |-> ""]
NilIface         == [k |-> "iface", v |-> 0, len |-> 0, cap |-> 0, t |-> ""]
IfaceW(t, w)     == [k |-> "iface", v |-> w.v, len |-> w.len, cap |-> w.cap, t |-> t]
MapHdr           == [k |-> "hdr",   v |-> 0, len |-> 0, cap |-> 0, t |-> ""]
ChanW(a)         == [k |-> "chan",  v |-> a, len |-> 0, cap |-> 0, t |-> ""]
HChan(q, c)      == [k |-> "hchan", v |-> 0, len |-> q, cap |-> c, t |-> ""]

(***************************************************************************)
(* The types of the values cloned.  Node is the list node of ExampleSlowly;*)
(* Elem and List are cycleElement and cycleList of the tests (List holds   *)
(* its root Elem by value); Box gathers one member of each reference kind, *)
(* a scalar member n, and pointers to two of its own members; Tagged is    *)
(* skipFields of the tests, with struct tags; Conf is testType of the      *)
(* wrapper tests (a number, a map and a slice); Pipe holds a number and a  *)
(* channel; Mixed has one member of each case of the classifier's loop;     *)
(* Views holds two slices.                                                 *)
(***************************************************************************)
ScalarT(k)    == [kind |-> k, elem |-> "", key |-> "", len |-> 0, fields |-> <<>>]
PtrT(e)       == [kind |-> "Ptr", elem |-> e, key |-> "", len |-> 0, fields |-> <<>>]
SliceT(e)     == [kind |-> "Slice", elem |-> e, key |-> "", len |-> 0, fields |-> <<>>]
ChanT(e)      == [kind |-> "Chan", elem |-> e, key |-> "", len |-> 0, fields |-> <<>>]
ArrayT(e, n)  == [kind |-> "Array", elem |-> e, key |-> "", len |-> n, fields |-> <<>>]
MapT(k, e)    == [kind |-> "Map", elem |-> e, key |-> k, len |-> 0, fields |-> <<>>]
StructT(fs)   == [kind |-> "Struct", elem |-> "", key |-> "", len |-> 0, fields |-> fs]
Fld(n, t, x)  == [name |-> n, type |-> t, exported |-> x, tag |-> ""]
\* A member with the struct tag clone:"g".
FldTag(n, t, x, g) == [name |-> n, type |-> t, exported |-> x, tag |-> g]

Types ==
    ("int" :> ScalarT("Int")) @@
    ("interface{}" :> ScalarT("Interface")) @@
    ("*int" :> PtrT("int")) @@
    ("Node" :> StructT(<<Fld("Data", "int", TRUE), Fld("Next", "*Node", TRUE)>>)) @@
    ("*Node" :> PtrT("Node")) @@
    ("**Node" :> PtrT("*Node")) @@
    ("Elem" :> StructT(<<Fld("next", "*Elem", FALSE), Fld("list", "*List", FALSE)>>)) @@
    ("List" :> StructT(<<Fld("root", "Elem", FALSE), Fld("elem", "*Elem", FALSE)>>)) @@
    ("*Elem" :> PtrT("Elem")) @@
    ("*List" :> PtrT("List")) @@
    ("[]*Node" :> SliceT("*Node")) @@
    ("[]int" :> SliceT("int")) @@
    ("*[]*Node" :> PtrT("[]*Node")) @@
    ("[2]*Node" :> ArrayT("*Node", 2)) @@
    ("map[int]*Node" :> MapT("int", "*Node")) @@
    ("Box" :> StructT(<<Fld("P", "*Node", TRUE), Fld("S", "[]*Node", TRUE),
                        Fld("M", "map[int]*Node", TRUE), Fld("I", "interface{}", TRUE),
                        Fld("A", "[2]*Node", TRUE), Fld("n", "int", FALSE),
                        Fld("pn", "*int", FALSE), Fld("ps", "*[]*Node", FALSE),
                        Fld("ints", "[]int", FALSE)>>)) @@
    ("*Box" :> PtrT("Box")) @@
    ("string" :> ScalarT("String")) @@
    ("Tagged" :> StructT(<<Fld("Int", "int", TRUE),
                           FldTag("IntSkip", "int", TRUE, "-"),
                           FldTag("privateSkip", "int", FALSE, "skip"),
                           FldTag("StrSkip", "string", TRUE, "-"),
                           Fld("t", "*Node", FALSE),
                           FldTag("TSkip", "*Node", TRUE, "-"),
                           FldTag("privateTSkip", "*Node", FALSE, "skip"),
                           FldTag("privateTShadow", "*Node", FALSE, "shadowcopy"),
                           Fld("TSlice", "[]*Node", TRUE),
                           FldTag("privateTSliceSkip", "[]*Node", FALSE, "-"),
                           FldTag("arrSkip", "[2]*Node", TRUE, "-")>>)) @@
    ("*Tagged" :> PtrT("Tagged")) @@
    ("Conf" :> StructT(<<Fld("Foo", "int", TRUE), Fld("Bar", "map[int]*Node", TRUE),
                         Fld("Player", "[]int", TRUE)>>)) @@
    ("*Conf" :> PtrT("Conf")) @@
    ("Foo" :> StructT(<<Fld("Bar", "int", TRUE)>>)) @@
    ("*Foo" :> PtrT("Foo")) @@
    ("[]*Foo" :> SliceT("*Foo")) @@
    ("bool" :> ScalarT("Bool")) @@
    ("chan int" :> ChanT("int")) @@
    ("chan bool" :> ChanT("bool")) @@
    ("Pipe" :> StructT(<<Fld("n", "int", FALSE), Fld("ch", "chan int", TRUE)>>)) @@
    ("*Pipe" :> PtrT("Pipe")) @@
    ("[0]*Node" :> ArrayT("*Node", 0)) @@
    ("[2]int" :> ArrayT("int", 2)) @@
    ("[2]Foo" :> ArrayT("Foo", 2)) @@
    ("[1]Node" :> ArrayT("Node", 1)) @@
    ("Mixed" :> StructT(<<Fld("z", "[0]*Node", FALSE), Fld("ai", "[2]int", FALSE),
                          Fld("af", "[2]Foo", FALSE), Fld("f", "Foo", FALSE),
                          Fld("an", "[1]Node", FALSE), Fld("nd", "Node", FALSE),
                          Fld("ch", "chan int", FALSE), Fld("self", "*Mixed", FALSE)>>)) @@
    ("*Mixed" :> PtrT("Mixed")) @@
    ("Views" :> StructT(<<Fld("a", "[]int", TRUE), Fld("b", "[]int", TRUE)>>)) @@
    ("*Views" :> PtrT("Views"))

\* F applied to e: e is computed once and named by F's parameter.
With(e, F(_)) == F(e)

TypeNames == DOMAIN Types
Kind(t)   == Types[t].kind

\* IsScalar: the kinds copied by value.
IsScalar(k) ==
    k \in {"Bool", "Int", "Int8", "Int16", "Int32", "Int64",
           "Uint", "Uint8", "Uint16", "Uint32", "Uint64", "Uintptr",
           "Float32", "Float64", "Complex64", "Complex128",
           "String", "Func", "UnsafePointer", "Invalid"}

\* An IsScalar method supplied by a caller: func(k) bool { return k == reflect.Int }
isInt(k) == k = "Int"

\* Allocator.isScalar(k), f the predicate the allocator holds.
isScalar(f, k) == IF f = "isInt" THEN isInt(k) ELSE IsScalar(k)

RECURSIVE Size(_), FieldsSize(_, _)
\* reflect.Type.Size in cells: one per word, aggregates laid out inline.
Size(t) ==
    With(Types[t], LAMBDA ty :
        CASE ty.kind = "Struct" -> FieldsSize(ty.fields, Len(ty.fields))
          [] ty.kind = "Array"  -> ty.len * Size(ty.elem)
          [] OTHER              -> 1)
\* The size of the first n members of a struct.
FieldsSize(fs, n) == IF n = 0 THEN 0 ELSE FieldsSize(fs, n - 1) + Size(fs[n].type)

\* An Offset that counts members, not cells.
Offset_Index(t, i) == i - 1

\* reflect.StructField.Offset of member i (1-based) of struct type t.
Offset(t, i) == FieldsSize(Types[t].fields, i - 1)

\* The zero word of a one-word type.
ZeroW(t) ==
    With(Kind(t), LAMBDA k :
        CASE k = "Ptr"       -> PtrW(0)
          [] k = "Slice"     -> SliceW(0, 0, 0)
          [] k = "Map"       -> MapW(0)
          [] k = "Interface" -> NilIface
          [] k = "Chan"      -> ChanW(0)
          [] OTHER           -> IntW(0))

RECURSIVE FlatTypes(_), FlatFields(_, _)
\* The one-word types of the cells of a value of type t, in layout order.
FlatTypes(t) ==
    With(Types[t], LAMBDA ty :
        CASE ty.kind = "Struct" -> FlatFields(ty.fields, Len(ty.fields))
          [] ty.kind = "Array"  ->
                IF ty.len = 0 THEN <<>>
                ELSE With(FlatTypes(ty.elem), LAMBDA e :
                        [i \in 1..(ty.len * Len(e)) |-> e[((i - 1) % Len(e)) + 1]])
          [] OTHER              -> <<t>>)
FlatFields(fs, n) == IF n = 0 THEN <<>> ELSE FlatFields(fs, n - 1) \o FlatTypes(fs[n].type)

\* reflect.Zero(t), as cells.
Zero(t) == With(FlatTypes(t), LAMBDA ft : [i \in 1..Len(ft) |-> ZeroW(ft[i])])

(***************************************************************************)
(* reflect.Value: a type, the cells of the value, the address when the     *)
(* value is addressable (0 otherwise), and the read-only flag a value      *)
(* obtained through an unexported member carries.                          *)
(***************************************************************************)
Val(t, w, a, ro) == [t |-> t, w |-> w, a |-> a, ro |-> ro]
NoValue          == Val("", <<>>, 0, FALSE)

\* The value of type t stored at address a.
Load(mem, a, t, ro) == Val(t, [i \in 1..Size(t) |-> mem[a + i - 1]], a, ro)

\* reflect.Value.Field(i), i 1-based.
Field(v, i) ==
    With(Types[v.t].fields[i], LAMBDA f :
    With(Offset(v.t, i), LAMBDA off :
        Val(f.type, [j \in 1..Size(f.type) |-> v.w[off + j]],
            IF v.a = 0 THEN 0 ELSE v.a + off, v.ro \/ ~f.exported)))

\* reflect.Value.Index(i) of an array value, i 0-based.
ArrayIndex(v, i) ==
    With(Types[v.t].elem, LAMBDA e :
    With(Size(e), LAMBDA sz :
        Val(e, [j \in 1..sz |-> v.w[i * sz + j]],
            IF v.a = 0 THEN 0 ELSE v.a + i * sz, v.ro)))

\* reflect.Value.Index(i) of a slice value, i 0-based: always addressable.
SliceIndex(mem, v, i) ==
    With(Types[v.t].elem, LAMBDA e : Load(mem, v.w[1].v + i * Size(e), e, v.ro))

\* reflect.Value.Elem() of a non-nil pointer.
PtrElem(mem, v) == Load(mem, v.w[1].v, Types[v.t].elem, v.ro)

\* reflect.Value.Elem() of a non-nil interface: the word held, not addressable.
IfaceElem(v) ==
    LET w == v.w[1]
    IN Val(w.t, <<[ZeroW(w.t) EXCEPT !.v = w.v, !.len = w.len, !.cap = w.cap]>>, 0, v.ro)

(***************************************************************************)
(* The struct-type cache.  A structType is the list of the members to be   *)
(* cloned one by one (offset and 1-based index) and the custom function    *)
(* bound to the type when the entry was computed ("nil" for none).         *)
(***************************************************************************)
StructType(pf, fn) == [PointerFields |-> pf, fn |-> fn]
zeroStructType     == StructType(<<>>, "nil")

\* structType.CanShadowCopy: nothing to clone member by member.
CanShadowCopy(st) == Len(st.PointerFields) = 0 /\ st.fn = "nil"

\* sync.Map.LoadOrStore: the first entry stored for a key stays.
LoadOrStore(m, key, val) == IF key \in DOMAIN m THEN m ELSE (key :> val) @@ m

\* sync.Map.Store
Store(m, key, val) == (key :> val) @@ [x \in DOMAIN m \ {key} |-> m[x]]

\* sync.Map.Delete
Delete(m, key) == [x \in DOMAIN m \ {key} |-> m[x]]

RECURSIVE loadStructType(_, _, _, _), loadStructFields(_, _, _, _, _, _)
\* Allocator.loadStructType against cache `cache`, custom functions `funcs`
\* and the allocator's isScalar `sc`: the entry for t and the cache afterwards.
loadStructType(t, cache, funcs, sc) ==
    IF t \in DOMAIN cache
    THEN [st |-> cache[t], cache |-> cache]
    ELSE With(loadStructFields(t, 1, <<>>, cache, funcs, sc), LAMBDA r :
         With(StructType(r.pf, IF t \in DOMAIN funcs THEN funcs[t] ELSE "nil"), LAMBDA st :
            [st |-> st, cache |-> LoadOrStore(r.cache, t, st)]))

\* The loop of loadStructType over the members of t, from member i on: a
\* member is skipped (continue) or appended to pointerFields.
loadStructFields(t, i, pf, cache, funcs, sc) ==
    IF i > Len(Types[t].fields)
    THEN [pf |-> pf, cache |-> cache]
    ELSE
      With(Types[Types[t].fields[i].type], LAMBDA ft :
      With(Append(pf, [Offset |-> Offset(t, i), Index |-> i]), LAMBDA kept :
        IF isScalar(sc, ft.kind) THEN loadStructFields(t, i + 1, pf, cache, funcs, sc)
        ELSE IF ft.kind = "Array" THEN
            IF ft.len = 0 THEN loadStructFields(t, i + 1, pf, cache, funcs, sc)
            ELSE With(Kind(ft.elem), LAMBDA ek :
                IF isScalar(sc, ek) THEN loadStructFields(t, i + 1, pf, cache, funcs, sc)
                ELSE IF ek = "Struct" THEN
                    With(loadStructType(ft.elem, cache, funcs, sc), LAMBDA fst :
                        IF CanShadowCopy(fst.st)
                        THEN loadStructFields(t, i + 1, pf, fst.cache, funcs, sc)
                        ELSE loadStructFields(t, i + 1, kept, fst.cache, funcs, sc))
                ELSE loadStructFields(t, i + 1, kept, cache, funcs, sc))
        ELSE IF ft.kind = "Struct" THEN
            With(loadStructType(Types[t].fields[i].type, cache, funcs, sc), LAMBDA fst :
                IF CanShadowCopy(fst.st)
                THEN loadStructFields(t, i + 1, pf, fst.cache, funcs, sc)
                ELSE loadStructFields(t, i + 1, kept, fst.cache, funcs, sc))
        ELSE loadStructFields(t, i + 1, kept, cache, funcs, sc)))

\* An isOpaquePointer that finds no type marked.
isOpaquePointer_Never(a, t) == FALSE

\* Allocator.isOpaquePointer, a the allocator's cachedPointerTypes
isOpaquePointer(a, t) == t \in a

RECURSIVE StripPtr(_)
\* for t.Kind() == reflect.Ptr { t = t.Elem() }
StripPtr(t) == IF Kind(t) = "Ptr" THEN StripPtr(Types[t].elem) ELSE t

(***************************************************************************)
(* The state of one clone call (cloneState) together with what the call    *)
(* reads and writes: the cells, the maps and the struct-type cache.        *)
(*   cst, cpt, ccf, isScalar  the registries and the isScalar of the       *)
(*            allocator of the call                                        *)
(*   slow     visited # nil, i.e. the call is Slowly / CloneSlowly         *)
(*   visited  visit key <<address, extra, type>> -> the value cloned for it*)
(*   invalid  visit key -> the value handed out before the final one       *)
(*   skip     skipCustomFuncValue (NoValue when unset)                     *)
(*   stack    the references whose referent is being cloned right now      *)
(*   div      the call re-entered a reference of its own stack with the    *)
(*            same state: the recursion repeats forever                    *)
(*   calls    the custom functions invoked, in order                       *)
(*   running  the custom functions running: <<value, skip of the caller>>  *)
(*   allocs   the allocations made through the allocator, in order         *)
(*   ord      the order in which this call iterates over map entries       *)
(***************************************************************************)
NewState(h, cache, slow, skip, ord) ==
    [mem |-> h.mem, maps |-> h.maps, cst |-> cache,
     cpt |-> cachedPointerTypes, ccf |-> cachedCustomFuncTypes, isScalar |-> "IsScalar",
     slow |-> slow,
     visited |-> <<>>, invalid |-> <<>>, skip |-> skip, stack |-> {}, running |-> {},
     div |-> FALSE, calls |-> <<>>, allocs |-> <<>>, ord |-> ord]

Ret(v, st) == [v |-> v, st |-> st]

\* Cells w written at address p.
Poke(mem, p, w) ==
    [a \in 1..Len(mem) |-> IF a >= p /\ a < p + Len(w) THEN w[a - p + 1] ELSE mem[a]]

\* shadowCopy(src, p): the cells of src written at p, whatever their kind.
shadowCopy(v, p, st) == [st EXCEPT !.mem = Poke(@, p, v.w)]

\* copyScalarValue: the value itself, or a copy when it cannot be read directly.
copyScalarValue(v) == IF ~v.ro THEN v ELSE Val(v.t, v.w, 0, FALSE)

\* A New that is called a second time for the value it returns.
New_Twice(st, t) ==
    [p  |-> Len(st.mem) + 1,
     st |-> [st EXCEPT !.mem = @ \o Zero(t),
                       !.allocs = @ \o [i \in 1..2 |-> [how |-> "new", t |-> t,
                                                        base |-> Len(st.mem) + 1, n |-> 1]]]]

\* Allocator.New (heapNew): zeroed cells for one value of type t.
New(st, t) ==
    [p  |-> Len(st.mem) + 1,
     st |-> [st EXCEPT !.mem = @ \o Zero(t),
                       !.allocs = Append(@, [how |-> "new", t |-> t,
                                             base |-> Len(st.mem) + 1, n |-> 1])]]

\* A MakeSlice that returns the nil slice for a slice of no elements.
MakeSlice_Nil(st, t, num, c) ==
    With(Zero(Types[t].elem), LAMBDA z :
        LET base == IF num = 0 THEN 0 ELSE Len(st.mem) + 1
            cp   == IF num = 0 THEN 0 ELSE c
        IN [v  |-> Val(t, <<SliceW(base, num, cp)>>, 0, FALSE),
            st |-> [st EXCEPT !.mem = @ \o [i \in 1..(cp * Len(z)) |-> z[((i - 1) % Len(z)) + 1]],
                              !.allocs = Append(@, [how |-> "slice", t |-> Types[t].elem,
                                                    base |-> base, n |-> cp])]])

\* Allocator.MakeSlice (heapMakeSlice): a zeroed backing array of c elements.
\* A backing array of no cells is the cell at address 1, as every zero-size
\* allocation of the runtime is.
MakeSlice(st, t, num, c) ==
    With(Zero(Types[t].elem), LAMBDA z :
        LET base == IF c = 0 THEN 1 ELSE Len(st.mem) + 1
        IN [v  |-> Val(t, <<SliceW(base, num, c)>>, 0, FALSE),
            st |-> [st EXCEPT !.mem = @ \o [i \in 1..(c * Len(z)) |-> z[((i - 1) % Len(z)) + 1]],
                              !.allocs = Append(@, [how |-> "slice", t |-> Types[t].elem,
                                                    base |-> base, n |-> c])]])

\* A MakeChan that ignores the buffer size asked for.
MakeChan_Unbuffered(st, t, buffer) ==
    [v  |-> Val(t, <<ChanW(Len(st.mem) + 1)>>, 0, FALSE),
     st |-> [st EXCEPT !.mem = Append(@, HChan(0, 0)),
                       !.allocs = Append(@, [how |-> "chan", t |-> t,
                                             base |-> Len(st.mem) + 1, n |-> 1])]]

\* Allocator.MakeChan (heapMakeChan): a new channel with nothing queued and
\* a zeroed buffer of `buffer` elements.
MakeChan(st, t, buffer) ==
    [v  |-> Val(t, <<ChanW(Len(st.mem) + 1)>>, 0, FALSE),
     st |-> [st EXCEPT !.mem = Append(@, HChan(0, buffer))
                                 \o [i \in 1..buffer |-> ZeroW(Types[t].elem)],
                       !.allocs = Append(@, [how |-> "chan", t |-> t,
                                             base |-> Len(st.mem) + 1, n |-> 1])]]

\* reflect.Value.Cap() of a channel value: 0 for the nil channel.
Cap(mem, v) == IF v.w[1].v = 0 THEN 0 ELSE mem[v.w[1].v].cap

\* Allocator.MakeMap (heapMakeMap): a new empty map.
MakeMap(st, t) ==
    LET id == Len(st.mem) + 1
    IN [v  |-> Val(t, <<MapW(id)>>, 0, FALSE),
        st |-> [st EXCEPT !.mem = Append(@, MapHdr),
                          !.maps = (id :> <<>>) @@ @,
                          !.allocs = Append(@, [how |-> "map", t |-> t,
                                                base |-> id, n |-> 1])]]

\* The pointer type whose element type is t ("" when the values cloned have none).
PtrTo(t) ==
    With({p \in TypeNames : Types[p] = PtrT(t)}, LAMBDA P :
        IF P = {} THEN "" ELSE CHOOSE p \in P : TRUE)

\* The entry of the reference `key` on the call stack.
Frame(st, key) == <<key, st.skip, st.slow>>

Min(S) == CHOOSE x \in S : \A y \in S : x <= y
Max(S) == CHOOSE x \in S : \A y \in S : x >= y

\* The designated number member of a struct type, which the custom functions edit.
IntField(t) ==
    With(Types[t].fields, LAMBDA fs : Min({i \in 1..Len(fs) : fs[i].type = "int"}))

\* reflect.Zero(t) as a value.
ZeroValue(t) == Val(t, Zero(t), 0, FALSE)

\* The value of type t at p once the call that fills it has returned in state st.
Loaded(t, p, st) ==
    IF st.div THEN Ret(ZeroValue(t), st) ELSE Ret(Load(st.mem, p, t, FALSE), st)

\* reflect.Value.Set: the value r.v a call returned, written at p in the
\* state r.st the call left.
Set(p, r) == [r.st EXCEPT !.mem = Poke(@, p, r.v.w)]

\* An Enter that records nothing in the visited table.
Enter_Unrecorded(st, key, nv) == [st EXCEPT !.stack = @ \cup {Frame(st, key)}]

\* A reference is entered: in the slow path its clone nv is recorded in the
\* visited table before the referent is cloned; it is put on the call stack.
Enter(st, key, nv) ==
    [st EXCEPT !.visited = IF st.slow THEN (key :> nv) @@ @ ELSE @,
               !.stack = @ \cup {Frame(st, key)}]

\* A reference entered in state st is left in state st3: nv is its clone.
Leave(nv, st, st3) == [v |-> nv, st |-> [st3 EXCEPT !.stack = st.stack]]

(***************************************************************************)
(* The clone engine.  Every operator takes the state of the call and       *)
(* returns the cloned value with the state afterwards.  A call made in a   *)
(* state that diverged does nothing.                                       *)
(***************************************************************************)
RECURSIVE clone(_, _), cloneArray(_, _), copyArray(_, _, _), copyArrayFrom(_, _, _, _),
          cloneInterface(_, _), cloneMap(_, _), cloneMapEntries(_, _, _, _),
          clonePtr(_, _), cloneSlice(_, _), cloneSliceFrom(_, _, _, _),
          cloneStruct(_, _), copyStruct(_, _, _), copyStructFields(_, _, _, _, _),
          callCustomFunc(_, _, _, _), AllocatorClone(_, _, _)

\* The outcome of a call that never returns.
Diverge(v, st) == Ret(ZeroValue(v.t), [st EXCEPT !.div = TRUE])

\* clone: dispatch on the kind of v.
clone(v, st) ==
    IF st.div THEN Ret(ZeroValue(v.t), st)
    ELSE CASE isScalar(st.isScalar, Kind(v.t))     -> Ret(copyScalarValue(v), st)
           [] Kind(v.t) = "Array"     -> cloneArray(v, st)
           [] Kind(v.t) = "Chan"      -> MakeChan(st, v.t, Cap(st.mem, v))
           [] Kind(v.t) = "Interface" -> cloneInterface(v, st)
           [] Kind(v.t) = "Map"       -> cloneMap(v, st)
           [] Kind(v.t) = "Ptr"       -> clonePtr(v, st)
           [] Kind(v.t) = "Slice"     -> cloneSlice(v, st)
           [] Kind(v.t) = "Struct"    -> cloneStruct(v, st)

\* cloneArray once the new array dst is allocated: filled by copyArray.
cloneArrayTo(v, dst) == Loaded(v.t, dst.p, copyArray(v, dst.p, dst.st))

\* cloneArray: a new array, filled by copyArray.
cloneArray(v, st) == cloneArrayTo(v, New(st, v.t))

\* copyArray: scalar elements in one copy, the others cloned one by one.
copyArray(s, p, st) ==
    IF isScalar(st.isScalar, Kind(Types[s.t].elem))
    THEN shadowCopy(s, p, st)
    ELSE copyArrayFrom(s, p, 0, st)

\* The loop of copyArray from element i on.
copyArrayFrom(s, p, i, st) ==
    IF st.div \/ i >= Types[s.t].len THEN st
    ELSE copyArrayFrom(s, p, i + 1,
            Set(p + i * Size(Types[s.t].elem), clone(ArrayIndex(s, i), st)))

\* The value r.v a call returned, held in an interface of type t.
Boxed(t, r) == Ret(Val(t, <<IfaceW(r.v.t, r.v.w[1])>>, 0, FALSE), r.st)

\* cloneInterface: nil stays nil; otherwise the value held is cloned and put
\* back into an interface.
cloneInterface(v, st) ==
    IF v.w[1].t = "" THEN Ret(ZeroValue(v.t), st)
    ELSE Boxed(v.t, clone(IfaceElem(v), st))

\* A cloneMap that allocates the new map and leaves it empty.
cloneMap_Empty(v, st) ==
    IF v.w[1].v = 0 THEN Ret(ZeroValue(v.t), st)
    ELSE MakeMap(st, v.t)

\* reflect.Value.SetMapIndex: the entry kv -> rv.v put into map nv in the
\* state rv.st the clone of the value left.
SetMapIndex(nv, kv, rv) == [rv.st EXCEPT !.maps[nv] = (kv.w[1].v :> rv.v.w[1]) @@ @]

\* One entry of cloneMap: the key is cloned (rk), then the value.
cloneMapValue(v, nv, k, rk) ==
    SetMapIndex(nv, rk.v,
        clone(Val(Types[v.t].elem, <<rk.st.maps[v.w[1].v][k]>>, 0, v.ro), rk.st))

\* The entry the iteration over `todo` visits first.
NextKey(ord, todo) == IF ord = "asc" THEN Min(todo) ELSE Max(todo)

\* The loop of cloneMap over the entries not yet cloned: key, then value.
cloneMapEntries(v, nv, todo, st) ==
    IF st.div \/ todo = {} THEN st
    ELSE cloneMapEntries(v, nv, todo \ {NextKey(st.ord, todo)},
            cloneMapValue(v, nv, NextKey(st.ord, todo),
                clone(Val(Types[v.t].key, <<IntW(NextKey(st.ord, todo))>>, 0, v.ro), st)))

\* cloneMap once the new map m is made.
cloneMapTo(v, key, st, m) ==
    Leave(m.v, st,
          cloneMapEntries(v, m.v.w[1].v, DOMAIN st.maps[v.w[1].v], Enter(m.st, key, m.v)))

\* cloneMap
cloneMap(v, st) ==
    LET key  == <<v.w[1].v, 0, v.t>>
        nil  == v.w[1].v = 0
        seen == ~nil /\ st.slow /\ key \in DOMAIN st.visited
        loop == ~nil /\ ~seen /\ Frame(st, key) \in st.stack
    IN CASE nil   -> Ret(ZeroValue(v.t), st)
         [] seen  -> Ret(st.visited[key], st)
         [] loop  -> Diverge(v, st)
         [] OTHER -> cloneMapTo(v, key, st, MakeMap(st, v.t))

\* The opaque-pointer case of clonePtr: the pointer itself, its referent untouched.
opaquePointerCopy(v, st) == Ret(Val(v.t, v.w, 0, FALSE), st)

\* The switch of clonePtr on the kind of the referent s: its clone at p.
copyValue(s, p, st) ==
    CASE isScalar(st.isScalar, Kind(s.t))  -> shadowCopy(s, p, st)
      [] Kind(s.t) = "Struct" -> copyStruct(s, p, st)
      [] Kind(s.t) = "Array"  -> copyArray(s, p, st)
      [] OTHER                -> Set(p, clone(s, st))

\* The pointer of type t to address p.
PtrValue(t, p) == Val(t, <<PtrW(p)>>, 0, FALSE)

\* clonePtr once the new referent n is allocated.
clonePtrTo(v, key, st, n) ==
    Leave(PtrValue(v.t, n.p), st,
          copyValue(PtrElem(st.mem, v), n.p, Enter(n.st, key, PtrValue(v.t, n.p))))

\* clonePtr
clonePtr(v, st) ==
    LET key    == <<v.w[1].v, 0, v.t>>
        nil    == v.w[1].v = 0
        opaque == ~nil /\ isOpaquePointer(st.cpt, v.t)
        seen   == ~nil /\ ~opaque /\ st.slow /\ key \in DOMAIN st.visited
        loop   == ~nil /\ ~opaque /\ ~seen /\ Frame(st, key) \in st.stack
    IN CASE nil    -> Ret(ZeroValue(v.t), st)
         [] opaque -> opaquePointerCopy(v, st)
         [] seen   -> Ret(st.visited[key], st)
         [] loop   -> Diverge(v, st)
         [] OTHER  -> clonePtrTo(v, key, st, New(st, Types[v.t].elem))

\* A cloneSlice that returns the slice header as it is.
cloneSlice_Shared(v, st) == Ret(Val(v.t, v.w, 0, FALSE), st)

\* The loop of cloneSlice from element i on.
cloneSliceFrom(v, nv, i, st) ==
    IF st.div \/ i >= v.w[1].len THEN st
    ELSE cloneSliceFrom(v, nv, i + 1,
            Set(nv.w[1].v + i * Size(Types[v.t].elem), clone(SliceIndex(st.mem, v, i), st)))

\* The elements of slice v copied into the new slice nv: scalar elements in
\* one copy, the others cloned one by one.
copySlice(v, nv, st) ==
    IF isScalar(st.isScalar, Kind(Types[v.t].elem))
    THEN [st EXCEPT !.mem = Poke(@, nv.w[1].v,
                              [i \in 1..(v.w[1].len * Size(Types[v.t].elem)) |->
                                   st.mem[v.w[1].v + i - 1]])]
    ELSE cloneSliceFrom(v, nv, 0, st)

\* cloneSlice once the new slice m is made.
cloneSliceTo(v, key, st, m) == Leave(m.v, st, copySlice(v, m.v, Enter(m.st, key, m.v)))

\* A cloneSlice whose visit key leaves the length out.
cloneSlice_NoLen(v, st) ==
    LET key  == <<v.w[1].v, 0, v.t>>
        nil  == v.w[1].v = 0
        seen == ~nil /\ st.slow /\ key \in DOMAIN st.visited
        loop == ~nil /\ ~seen /\ Frame(st, key) \in st.stack
    IN CASE nil   -> Ret(ZeroValue(v.t), st)
         [] seen  -> Ret(st.visited[key], st)
         [] loop  -> Diverge(v, st)
         [] OTHER -> cloneSliceTo(v, key, st, MakeSlice(st, v.t, v.w[1].len, v.w[1].cap))

\* cloneSlice
cloneSlice(v, st) ==
    LET key  == <<v.w[1].v, v.w[1].len, v.t>>
        nil  == v.w[1].v = 0
        seen == ~nil /\ st.slow /\ key \in DOMAIN st.visited
        loop == ~nil /\ ~seen /\ Frame(st, key) \in st.stack
    IN CASE nil   -> Ret(ZeroValue(v.t), st)
         [] seen  -> Ret(st.visited[key], st)
         [] loop  -> Diverge(v, st)
         [] OTHER -> cloneSliceTo(v, key, st, MakeSlice(st, v.t, v.w[1].len, v.w[1].cap))

\* cloneStruct once the new struct n is allocated: filled by copyStruct.
cloneStructTo(v, n) == Loaded(v.t, n.p, copyStruct(v, n.p, n.st))

\* cloneStruct: a new struct, filled by copyStruct.
cloneStruct(v, st) == cloneStructTo(v, New(st, v.t))

\* In the slow path, the address of a member about to be cloned in place is
\* recorded as the clone of the pointer to that member; a clone handed out for
\* that pointer earlier becomes invalid.
noteField(field, dp, st) ==
    With(PtrTo(field.t), LAMBDA pt :
        LET key == <<field.a, 0, pt>>
        IN IF st.slow /\ field.a # 0 /\ pt # ""
           THEN [st EXCEPT !.invalid = IF key \in DOMAIN st.visited
                                       THEN (key :> st.visited[key]) @@ @ ELSE @,
                           !.visited = (key :> PtrValue(pt, dp)) @@ @]
           ELSE st)

\* One member of PointerFields: the clone of member `field` of the source
\* written at dp.
copyField(field, dp, st) == Set(dp, clone(field, noteField(field, dp, st)))

\* The cells, relative to the struct, of the members tagged clone:"skip" or
\* clone:"-".
SkippedCells(t) ==
    With(Types[t].fields, LAMBDA fs :
        UNION {{Offset(t, i) + j : j \in 0..(Size(fs[i].type) - 1)} :
                  i \in {k \in 1..Len(fs) : fs[k].tag \in {"skip", "-"}}})

\* A copyStruct that leaves the members tagged skip as shadowCopy wrote them.
zeroSkipped_Keep(t, p, st) == st

\* The members tagged skip of the struct of type t at p are left zero.
zeroSkipped(t, p, st) ==
    With(SkippedCells(t), LAMBDA Z :
        IF Z = {} THEN st
        ELSE With(Zero(t), LAMBDA z :
                [st EXCEPT !.mem = [a \in 1..Len(st.mem) |->
                                       IF (a - p) \in Z THEN z[a - p + 1] ELSE st.mem[a]]]))

\* A copyStruct that clones every entry of PointerFields, tagged or not.
clonedFields_All(t, pfs) == pfs

\* The entries of PointerFields that are cloned: a member tagged skip stays
\* zero and a member tagged shadowcopy stays as shadowCopy wrote it.
clonedFields(t, pfs) == SelectSeq(pfs, LAMBDA f : Types[t].fields[f.Index].tag = "")

\* The loop of copyStruct over PointerFields from entry j on.
copyStructFields(s, p, pfs, j, st) ==
    IF st.div \/ j > Len(pfs) THEN st
    ELSE copyStructFields(s, p, pfs, j + 1,
            copyField(Field(s, pfs[j].Index), p + pfs[j].Offset, st))

\* copyStruct with l the structType loaded for the type of s (and the cache
\* after loading it).
copyStructAs(s, p, st, l) ==
    IF l.st.fn # "nil" /\ st.skip # s
    THEN callCustomFunc(l.st.fn, s, p, [st EXCEPT !.cst = l.cache])
    ELSE copyStructFields(s, p, clonedFields(s.t, l.st.PointerFields), 1,
                          zeroSkipped(s.t, p, shadowCopy(s, p, [st EXCEPT !.cst = l.cache])))

\* copyStruct: the custom function of the type if it has one and src is not
\* the value excluded from customization; otherwise the cells of src copied
\* as they are, the members tagged skip set to zero, and each untagged
\* member of PointerFields overwritten by its clone.
copyStruct(s, p, st) ==
    copyStructAs(s, p, st, loadStructType(s.t, st.cst, st.ccf, st.isScalar))

\* The custom function addHundred(allocator, old, new): new's number member
\* (at offset off) is old's plus 100.
addHundred(old, p, off, st) ==
    [st EXCEPT !.mem = Poke(@, p + off, <<IntW(old.w[off + 1].v + 100)>>)]

\* The end of cloneThenEdit: new is set to the clone r.v, then its number
\* member to old's plus 1000.
setThenEdit(old, p, off, r) ==
    [r.st EXCEPT !.mem = Poke(Poke(@, p, r.v.w), p + off, <<IntW(old.w[off + 1].v + 1000)>>)]

\* The custom function cloneThenEdit(allocator, old, new): new is set to
\* allocator.Clone(old), then its number member to old's plus 1000.
cloneThenEdit(old, p, off, st) == setThenEdit(old, p, off, AllocatorClone(old, TRUE, st))

\* The call of fn(allocator, old, new) is logged, with whether new is zero,
\* and fn is running on old.
enterCustomFunc(fn, old, p, st) ==
    [st EXCEPT !.calls = Append(@, [fn |-> fn, t |-> old.t, a |-> old.a,
                                    zero |-> Load(st.mem, p, old.t, FALSE).w = Zero(old.t)]),
               !.running = @ \cup {<<old, st.skip>>}]

\* A custom function fn(allocator, old, new) running on source s with the
\* zeroed destination at p.  A function called again on the value it is
\* running on, in the same clone state, never returns.
callCustomFunc(fn, s, p, st) ==
    LET old == Val(s.t, s.w, s.a, FALSE)
        off == Offset(s.t, IntField(s.t))
    IN CASE <<old, st.skip>> \in st.running ->
              [enterCustomFunc(fn, old, p, st) EXCEPT !.div = TRUE]
         [] <<old, st.skip>> \notin st.running /\ fn = "addHundred" ->
              [addHundred(old, p, off, enterCustomFunc(fn, old, p, st))
                  EXCEPT !.running = st.running]
         [] <<old, st.skip>> \notin st.running /\ fn = "cloneThenEdit" ->
              [cloneThenEdit(old, p, off, enterCustomFunc(fn, old, p, st))
                  EXCEPT !.running = st.running]

\* cloneState{allocator: a}: the state of a new clone call made in state st,
\* with a visited table when slow, skipCustomFuncValue set to val when the
\* call comes from a custom function.
cloneState(st, slow, inCustomFunc, val) ==
    [st EXCEPT !.slow = slow, !.visited = <<>>, !.invalid = <<>>,
               !.skip = IF inCustomFunc THEN val ELSE NoValue]

\* The result r of a clone call made in state st, in the caller's state.
Returned(st, r) ==
    Ret(r.v, [r.st EXCEPT !.slow = st.slow, !.visited = st.visited,
                          !.invalid = st.invalid, !.skip = st.skip])

\* An Allocator.clone that never sets skipCustomFuncValue.
AllocatorClone_NoSkip(val, inCustomFunc, st) ==
    Returned(st, clone(val, cloneState(st, FALSE, FALSE, val)))

\* Allocator.clone(val, inCustomFunc): a fresh cloneState without a visited
\* table, skipCustomFuncValue set to val when called from a custom function.
AllocatorClone(val, inCustomFunc, st) ==
    Returned(st, clone(val, cloneState(st, FALSE, inCustomFunc, val)))

(***************************************************************************)
(* The fix-up pass of the slow path.                                       *)
(***************************************************************************)
\* The leaf type of cell a inside allocation r ("" outside it).
CellTypeIn(r, a) ==
    IF r.how \in {"map", "chan"} THEN ""
    ELSE With(FlatTypes(r.t), LAMBDA ft :
            IF a >= r.base /\ a < r.base + r.n * Len(ft)
            THEN ft[((a - r.base) % Len(ft)) + 1] ELSE "")

\* The leaf type of cell a, when a call allocated it.
CellType(allocs, a) ==
    With({CellTypeIn(allocs[i], a) : i \in DOMAIN allocs} \ {""}, LAMBDA T :
        IF T = {} THEN "" ELSE CHOOSE t \in T : TRUE)

\* <<pointer type, address handed out too early, final address>>
Stale(st) ==
    {<<k[3], st.invalid[k].w[1].v, st.visited[k].w[1].v>> : k \in DOMAIN st.invalid}

\* Word w of leaf type ct with an invalid pointer replaced by the final one.
FixWord(ct, w, S) ==
    With(IF ct = "" THEN "" ELSE IF Kind(ct) = "Interface" THEN w.t ELSE ct, LAMBDA pt :
        LET hits == {x \in S : x[1] = pt /\ x[2] = w.v}
        IN IF pt # "" /\ hits # {} THEN [w EXCEPT !.v = (CHOOSE x \in hits : TRUE)[3]] ELSE w)

\* The type of the map allocated with identity id ("" when the call allocated none).
MapTypeOf(allocs, id) ==
    With({allocs[i].t : i \in {j \in DOMAIN allocs : allocs[j].how = "map" /\ allocs[j].base = id}},
         LAMBDA T : IF T = {} THEN "" ELSE CHOOSE t \in T : TRUE)

\* cloneState.fix: every pointer of the clone that was handed out before the
\* final address of its target was known is set to that address.
fix(v, st) ==
    With(Stale(st), LAMBDA S :
        IF S = {} THEN Ret(v, st)
        ELSE With(FlatTypes(v.t), LAMBDA ft :
             Ret([v EXCEPT !.w = [i \in DOMAIN v.w |-> FixWord(ft[i], v.w[i], S)]],
                 [st EXCEPT
                    !.mem = [a \in 1..Len(st.mem) |->
                                FixWord(CellType(st.allocs, a), st.mem[a], S)],
                    !.maps = [id \in DOMAIN st.maps |->
                                With(MapTypeOf(st.allocs, id), LAMBDA mt :
                                    IF mt = "" THEN st.maps[id]
                                    ELSE [k \in DOMAIN st.maps[id] |->
                                            FixWord(Types[mt].elem, st.maps[id][k], S)])]])))

\* An Allocator.cloneSlowly without the fix-up pass.
AllocatorCloneSlowly_NoFix(val, inCustomFunc, st) ==
    clone(val, cloneState(st, TRUE, inCustomFunc, val))

\* An Allocator.cloneSlowly without the visited table.
AllocatorCloneSlowly_NoTable(val, inCustomFunc, st) ==
    clone(val, cloneState(st, FALSE, inCustomFunc, val))

\* state.fix(cloned) for the result r of state.clone.
Fixed(r) == fix(r.v, r.st)

\* Allocator.cloneSlowly(val, inCustomFunc): a fresh cloneState with an empty
\* visited table; the clone, then the fix-up pass.
AllocatorCloneSlowly(val, inCustomFunc, st) ==
    Fixed(clone(val, cloneState(st, TRUE, inCustomFunc, val)))

\* reflect.ValueOf(v) for a non-nil interface word v.
ValueOf(v) == IfaceElem(Val("interface{}", <<v>>, 0, FALSE))

\* The interface{} holding the value a call returned.
Interface(r) == [val |-> IfaceW(r.v.t, r.v.w[1]), st |-> r.st]

\* A Clone that keeps a visited table.
Clone_Visited(h, cache, v, ord) ==
    IF v.t = "" THEN [val |-> v, st |-> NewState(h, cache, TRUE, NoValue, ord)]
    ELSE Interface(AllocatorCloneSlowly(ValueOf(v), FALSE,
                                        NewState(h, cache, TRUE, NoValue, ord)))

\* Clone(v): nil for nil, otherwise the fast path of the default allocator.
Clone(h, cache, v, ord) ==
    IF v.t = "" THEN [val |-> v, st |-> NewState(h, cache, FALSE, NoValue, ord)]
    ELSE Interface(AllocatorClone(ValueOf(v), FALSE,
                                  NewState(h, cache, FALSE, NoValue, ord)))

\* A Slowly that takes the fast path.
Slowly_Fast(h, cache, v, ord) ==
    IF v.t = "" THEN [val |-> v, st |-> NewState(h, cache, FALSE, NoValue, ord)]
    ELSE Interface(AllocatorClone(ValueOf(v), FALSE,
                                  NewState(h, cache, FALSE, NoValue, ord)))

\* Slowly(v): nil for nil, otherwise the slow path of the default allocator.
Slowly(h, cache, v, ord) ==
    IF v.t = "" THEN [val |-> v, st |-> NewState(h, cache, TRUE, NoValue, ord)]
    ELSE Interface(AllocatorCloneSlowly(ValueOf(v), FALSE,
                                        NewState(h, cache, TRUE, NoValue, ord)))

(***************************************************************************)
(* What a value refers to.  An item is <<address, type, sort>>: a cell     *)
(* with its leaf type, or a map with its map type.                         *)
(***************************************************************************)
\* The cells of a value of type t stored at a.
CellsAt(a, t) ==
    With(FlatTypes(t), LAMBDA ft : {<<a + i - 1, ft[i], "cell">> : i \in 1..Len(ft)})

\* The items word w of leaf type ct refers to directly.
RefsOfWord(ct, w) ==
    With(IF Kind(ct) = "Interface" THEN w.t ELSE ct, LAMBDA t :
        IF t = "" \/ w.v = 0 THEN {}
        ELSE With(Types[t], LAMBDA ty :
            CASE ty.kind = "Ptr"   -> CellsAt(w.v, ty.elem)
              [] ty.kind = "Slice" ->
                    With(Size(ty.elem), LAMBDA sz :
                        UNION {CellsAt(w.v + i * sz, ty.elem) : i \in 0..(w.cap - 1)})
              [] ty.kind = "Map"   -> {<<w.v, t, "map">>}
              [] OTHER             -> {}))

\* The items an item refers to directly.
Expand(h, x) ==
    IF x[3] = "map"
    THEN UNION {RefsOfWord(Types[x[2]].elem, h.maps[x[1]][k]) : k \in DOMAIN h.maps[x[1]]}
    ELSE RefsOfWord(x[2], h.mem[x[1]])

RECURSIVE Closure(_, _)
\* S with everything reachable from it.
Closure(h, S) ==
    With(S \cup UNION {Expand(h, x) : x \in S}, LAMBDA S2 :
        IF S2 = S THEN S ELSE Closure(h, S2))

\* Everything reachable from the interface word v: pointer targets, slice
\* backing arrays and maps.
Targets(h, v) == Closure(h, RefsOfWord("interface{}", v))

\* v contains a pointer cycle: something reachable from v reaches itself.
Cyclic(h, v) == \E x \in Targets(h, v) : x \in Closure(h, Expand(h, x))

RECURSIVE DeepEqW(_, _, _, _, _)
\* reflect.DeepEqual of word w1 in heap h1 and word w2 in heap h2, both of leaf
\* type ct: equal numbers; pointers both nil or to deeply equal values; slices
\* both nil or of equal length with deeply equal elements; maps both nil or with
\* the same keys and deeply equal values; interfaces both nil or of the same
\* dynamic type with deeply equal values.
DeepEqW(h1, h2, ct, w1, w2) ==
    LET EqAt(a1, a2, t) ==
            \A i \in 1..Size(t) :
                DeepEqW(h1, h2, FlatTypes(t)[i], h1.mem[a1 + i - 1], h2.mem[a2 + i - 1])
    IN CASE Kind(ct) = "Interface" ->
              /\ w1.t = w2.t
              /\ w1.t # "" => DeepEqW(h1, h2, w1.t, [w1 EXCEPT !.t = ""], [w2 EXCEPT !.t = ""])
         [] Kind(ct) = "Ptr" ->
              /\ (w1.v = 0) = (w2.v = 0)
              /\ w1.v # 0 => EqAt(w1.v, w2.v, Types[ct].elem)
         [] Kind(ct) = "Slice" ->
              /\ (w1.v = 0) = (w2.v = 0)
              /\ w1.len = w2.len
              /\ \A i \in 0..(w1.len - 1) :
                    EqAt(w1.v + i * Size(Types[ct].elem), w2.v + i * Size(Types[ct].elem),
                         Types[ct].elem)
         [] Kind(ct) = "Map" ->
              /\ (w1.v = 0) = (w2.v = 0)
              /\ w1.v # 0 =>
                   /\ DOMAIN h1.maps[w1.v] = DOMAIN h2.maps[w2.v]
                   /\ \A k \in DOMAIN h1.maps[w1.v] :
                         DeepEqW(h1, h2, Types[ct].elem, h1.maps[w1.v][k], h2.maps[w2.v][k])
         [] OTHER -> w1.v = w2.v

(***************************************************************************)
(* Bounds.                                                                 *)
(***************************************************************************)
MaxNodes  == 3   \* list nodes in the heap of the node family
MaxClones == 1   \* Clone / Slowly calls in one behaviour
MaxWrites == 1   \* writes through the clone or the source after a call
MaxRegs   == 2   \* calls of MarkAsScalar, MarkAsOpaquePointer and SetCustomFunc
MaxRegClones == 2   \* Clone / Slowly calls in a behaviour with registry calls

(***************************************************************************)
(* The values cloned.  Address 1 is the runtime's zero-size cell.          *)
(***************************************************************************)
\* Node family: MaxNodes list nodes with data 1, 2, ... at addresses 2, 4, ...;
\* every Next is nil or any node, so chains, shared tails and rings occur.
NodeAddr(i) == 2 * i
NodeHeap(next) ==
    [mem  |-> <<MapHdr>> \o [c \in 1..(2 * MaxNodes) |->
                               IF c % 2 = 1 THEN IntW((c + 1) \div 2)
                               ELSE PtrW(next[c \div 2])],
     maps |-> <<>>]

\* List family: a List at 2 (root.next, root.list, elem) and an Elem at 5
\* (next, list); pointers to Elem are nil, the root member of the List or
\* the Elem; pointers to List are nil or the List.
ListHeap(rn, rl, le, en, el) ==
    [mem  |-> <<MapHdr, PtrW(rn), PtrW(rl), PtrW(le), PtrW(en), PtrW(el)>>,
     maps |-> <<>>]

\* Box family: a Box at 2, two nodes at 12 and 14, the backing array of S at
\* 16, the backing array of ints at 18, the map at 20.
BoxHeap(P, S, M, I, rich, self) ==
    [mem  |-> <<MapHdr,
                PtrW(P), S, MapW(M), I,
                PtrW(IF rich THEN 12 ELSE 0), PtrW(IF rich THEN 12 ELSE 0),
                IntW(7),
                PtrW(IF self THEN 8 ELSE 0), PtrW(IF self THEN 3 ELSE 0),
                IF rich THEN SliceW(18, 2, 2) ELSE SliceW(0, 0, 0),
                IntW(1), PtrW(IF rich THEN 14 ELSE 0),
                IntW(2), PtrW(0),
                PtrW(12), PtrW(14),
                IntW(4), IntW(5),
                MapHdr>>,
     maps |-> (20 :> ((1 :> PtrW(12)) @@ (2 :> PtrW(14))))]

InitNode ==
    \E next \in [1..MaxNodes -> {0} \cup {NodeAddr(i) : i \in 1..MaxNodes}] :
      /\ heap = NodeHeap(next)
      /\ src \in {IfaceW("*Node", PtrW(NodeAddr(1)))}

InitScalar ==
    /\ heap = NodeHeap([i \in 1..MaxNodes |-> 0])
    /\ src \in {NilIface, IfaceW("int", IntW(7)), IfaceW("*Node", PtrW(0))}

InitList ==
    \E rn \in {0, 2, 5}, rl \in {0, 2}, le \in {0, 2, 5}, en \in {0, 2, 5}, el \in {0, 2} :
      /\ heap = ListHeap(rn, rl, le, en, el)
      /\ src \in {IfaceW("*List", PtrW(2)), IfaceW("*Elem", PtrW(2)), IfaceW("*Elem", PtrW(5))}

\* Foo family: two Foo at 2 and 3 with Bar 1 and 2, and at 4 the backing array
\* of a slice of two pointers to Foo, the second nil, the first Foo again or
\* the second Foo.
FooHeap(e) ==
    [mem  |-> <<MapHdr, IntW(1), IntW(2), PtrW(2), PtrW(e)>>,
     maps |-> <<>>]

InitFoo ==
    \E e \in {0, 2, 3} :
      /\ heap = FooHeap(e)
      /\ src \in {IfaceW("*Foo", PtrW(2)), IfaceW("[]*Foo", SliceW(4, 2, 2))}

\* Nil family: a Conf at 2 whose map is nil or the empty map at 5 and whose
\* slice is nil, empty without capacity, or empty over the cell at 6.
NilHeap(m, s) ==
    [mem  |-> <<MapHdr, IntW(1), MapW(m), s, MapHdr, IntW(0)>>,
     maps |-> (5 :> <<>>)]

InitNil ==
    \E m \in {0, 5}, s \in {SliceW(0, 0, 0), SliceW(1, 0, 0), SliceW(6, 0, 1)} :
      /\ heap = NilHeap(m, s)
      /\ src \in {IfaceW("*Conf", PtrW(2)), IfaceW("*Conf", PtrW(0)),
                  IfaceW("[]int", s), IfaceW("map[int]*Node", MapW(m))}

InitBox ==
    \E P \in {0, 12},
       S \in {SliceW(0, 0, 0), SliceW(16, 1, 2), SliceW(16, 2, 2)},
       M \in {0, 20},
       I \in {NilIface, IfaceW("int", IntW(5)), IfaceW("*Node", PtrW(14)), IfaceW("*Box", PtrW(2))},
       rich \in BOOLEAN, self \in BOOLEAN :
      /\ heap = BoxHeap(P, S, M, I, rich, self)
      /\ src = IfaceW("*Box", PtrW(2))

NoCall ==
    [op |-> "none", val |-> NilIface, div |-> FALSE, calls |-> <<>>, allocs |-> <<>>,
     base |-> 0, pre |-> [mem |-> <<>>, maps |-> <<>>], post |-> [mem |-> <<>>, maps |-> <<>>],
     stale |-> {}, reg |-> [funcs |-> <<>>, opaque |-> {}, cst |-> <<>>, scalar |-> {},
                            lateScalar |-> {}, lateFunc |-> {}, removed |-> {}]]

InitRest ==
    /\ cachedStructTypes = <<>>
    /\ cachedPointerTypes = {}
    /\ cachedCustomFuncTypes = <<>>
    /\ wrappers = <<>>
    /\ allocators = <<>>
    /\ goroutines = <<>>
    /\ last = NoCall

\* The history of a behaviour: the calls made so far, the calls allowed, the
\* struct types MarkAsScalar was called for, the struct types that were
\* classified already when MarkAsScalar or SetCustomFunc was called for them,
\* the argument of the latest SetCustomFunc(t, fn) with a function for each
\* struct type, and the struct types for which that call was followed by
\* SetCustomFunc(t, nil) with the same argument; the pointers Wrap returned
\* with their originals, <<address, pointer type, address of the original>>,
\* the number of Undo calls, and the registry call made since the latest
\* clone, <<method, type, function>> (and the allocator when it is not the
\* default one); regs counts the registry calls.  For the allocators made by
\* NewAllocator: the number of lookups and the allocation methods called on
\* them, the AllocatorMethods each was made with, and the Get calls on each
\* pool.
NoHist(max) ==
    [clones |-> 0, writes |-> 0, side |-> "none", regs |-> 0, max |-> max,
     scalar |-> {}, lateScalar |-> {}, lateFunc |-> {}, setBy |-> <<>>, removed |-> {},
     wrapped |-> {}, undos |-> 0, call |-> <<>>,
     acalls |-> 0, ops |-> {}, made |-> <<>>, gets |-> <<>>]

Init ==
    /\ InitNode \/ InitScalar \/ InitList \/ InitBox \/ InitFoo \/ InitNil
    /\ InitRest
    /\ hist = NoHist(MaxClones)

(***************************************************************************)
(* Calls.                                                                  *)
(***************************************************************************)
\* The record of a call that returned r (or never returned).
Called(op, r) ==
    [op |-> op, val |-> IF r.st.div THEN NilIface ELSE r.val, div |-> r.st.div,
     calls |-> r.st.calls, allocs |-> r.st.allocs, base |-> Len(heap.mem),
     pre |-> heap,
     post |-> IF r.st.div THEN heap ELSE [mem |-> r.st.mem, maps |-> r.st.maps],
     stale |-> Stale(r.st),
     reg |-> [funcs |-> cachedCustomFuncTypes, opaque |-> cachedPointerTypes,
              cst |-> cachedStructTypes, scalar |-> hist.scalar,
              lateScalar |-> hist.lateScalar, lateFunc |-> hist.lateFunc,
              removed |-> hist.removed]]

\* The effect of a call on the heap and the struct-type cache.
Effect(op, r) ==
    /\ last' = Called(op, r)
    /\ heap' = last'.post
    /\ cachedStructTypes' = r.st.cst
    /\ hist' = [hist EXCEPT !.clones = @ + 1, !.writes = 0, !.side = "none", !.call = <<>>]
    /\ UNCHANGED <<src, goroutines, wrappers, allocators, cachedPointerTypes, cachedCustomFuncTypes>>

\* cloned := Clone(src)
CallClone ==
    /\ ~last.div /\ hist.clones < hist.max
    /\ \E ord \in {"asc", "desc"} : Effect("Clone", Clone(heap, cachedStructTypes, src, ord))

\* cloned := Slowly(src)
CallSlowly ==
    /\ ~last.div /\ hist.clones < hist.max
    /\ \E ord \in {"asc", "desc"} : Effect("Slowly", Slowly(heap, cachedStructTypes, src, ord))

\* The program writes to item x: a number cell becomes 9, any other cell its
\* zero value, and one entry of a map its zero value.
WriteItem(x) ==
    IF x[3] = "map"
    THEN \E k \in DOMAIN heap.maps[x[1]] :
            /\ heap.maps[x[1]][k] # ZeroW(Types[x[2]].elem)
            /\ heap' = [heap EXCEPT !.maps[x[1]][k] = ZeroW(Types[x[2]].elem)]
    ELSE LET w == IF Kind(x[2]) = "Int" THEN IntW(9) ELSE ZeroW(x[2])
         IN /\ heap.mem[x[1]] # w
            /\ heap' = [heap EXCEPT !.mem[x[1]] = w]

\* A write through a pointer, slice element or map entry of the latest clone.
WriteThroughClone ==
    /\ last.op # "none" /\ ~last.div /\ hist.writes < MaxWrites
    /\ \E x \in Targets(heap, last.val) : WriteItem(x)
    /\ hist' = [hist EXCEPT !.writes = @ + 1,
                            !.side = IF @ \in {"none", "clone"} THEN "clone" ELSE "both"]
    /\ UNCHANGED <<src, goroutines, wrappers, allocators, cachedStructTypes, cachedPointerTypes, cachedCustomFuncTypes, last>>

\* A write through a pointer, slice element or map entry of the source.
WriteThroughSource ==
    /\ last.op # "none" /\ ~last.div /\ hist.writes < MaxWrites
    /\ \E x \in Targets(heap, src) : WriteItem(x)
    /\ hist' = [hist EXCEPT !.writes = @ + 1,
                            !.side = IF @ \in {"none", "source"} THEN "source" ELSE "both"]
    /\ UNCHANGED <<src, goroutines, wrappers, allocators, cachedStructTypes, cachedPointerTypes, cachedCustomFuncTypes, last>>

Next == CallClone \/ CallSlowly \/ WriteThroughClone \/ WriteThroughSource

Spec == Init /\ [][Next]_vars

(***************************************************************************)
(* The registry calls of the default allocator, and behaviours that mix    *)
(* them with clones.                                                       *)
(***************************************************************************)
\* A MarkAsScalar that leaves a type alone once it is classified.
MarkAsScalar_KeepFirst(t) ==
    /\ ~last.div /\ hist.regs < MaxRegs
    /\ LET T == StripPtr(t)
       IN IF Kind(T) # "Struct"
          THEN /\ UNCHANGED cachedStructTypes
               /\ hist' = [hist EXCEPT !.regs = @ + 1, !.call = <<"MarkAsScalar", t, "">>]
               /\ UNCHANGED <<heap, src, goroutines, wrappers, allocators, last>>
          ELSE /\ cachedStructTypes' = LoadOrStore(cachedStructTypes, T, zeroStructType)
               /\ hist' = [hist EXCEPT !.regs = @ + 1, !.scalar = @ \cup {T},
                                       !.lateScalar = @ \cup
                                           (IF T \in DOMAIN cachedStructTypes THEN {T} ELSE {}),
                                       !.call = <<"MarkAsScalar", t, "">>]
               /\ UNCHANGED <<heap, src, goroutines, wrappers, allocators, last>>
    /\ UNCHANGED <<cachedPointerTypes, cachedCustomFuncTypes>>

\* Allocator.MarkAsScalar(t)
MarkAsScalar(t) ==
    /\ ~last.div /\ hist.regs < MaxRegs
    /\ LET T == StripPtr(t)
       IN IF Kind(T) # "Struct"
          THEN /\ UNCHANGED cachedStructTypes
               /\ hist' = [hist EXCEPT !.regs = @ + 1, !.call = <<"MarkAsScalar", t, "">>]
               /\ UNCHANGED <<heap, src, goroutines, wrappers, allocators, last>>
          ELSE /\ cachedStructTypes' = Store(cachedStructTypes, T, zeroStructType)
               /\ hist' = [hist EXCEPT !.regs = @ + 1, !.scalar = @ \cup {T},
                                       !.lateScalar = @ \cup
                                           (IF T \in DOMAIN cachedStructTypes THEN {T} ELSE {}),
                                       !.call = <<"MarkAsScalar", t, "">>]
               /\ UNCHANGED <<heap, src, goroutines, wrappers, allocators, last>>
    /\ UNCHANGED <<cachedPointerTypes, cachedCustomFuncTypes>>

\* A MarkAsOpaquePointer that stores whatever type it is given.
MarkAsOpaquePointer_Any(t) ==
    /\ ~last.div /\ hist.regs < MaxRegs
    /\ cachedPointerTypes' = cachedPointerTypes \cup {t}
    /\ hist' = [hist EXCEPT !.regs = @ + 1, !.call = <<"MarkAsOpaquePointer", t, "">>]
    /\ UNCHANGED <<heap, src, goroutines, wrappers, allocators, last, cachedStructTypes, cachedCustomFuncTypes>>

\* Allocator.MarkAsOpaquePointer(t)
MarkAsOpaquePointer(t) ==
    /\ ~last.div /\ hist.regs < MaxRegs
    /\ IF Kind(t) # "Ptr"
       THEN /\ UNCHANGED cachedPointerTypes
            /\ hist' = [hist EXCEPT !.regs = @ + 1, !.call = <<"MarkAsOpaquePointer", t, "">>]
       ELSE /\ cachedPointerTypes' = cachedPointerTypes \cup {t}
            /\ hist' = [hist EXCEPT !.regs = @ + 1, !.call = <<"MarkAsOpaquePointer", t, "">>]
    /\ UNCHANGED <<heap, src, goroutines, wrappers, allocators, last, cachedStructTypes, cachedCustomFuncTypes>>

\* A SetCustomFunc that also drops the cached entry of the struct type.
SetCustomFunc_Reclassify(t, fn) ==
    /\ ~last.div /\ hist.regs < MaxRegs
    /\ cachedCustomFuncTypes' = IF fn = "nil" THEN Delete(cachedCustomFuncTypes, t)
                                ELSE IF Kind(StripPtr(t)) # "Struct" THEN cachedCustomFuncTypes
                                ELSE Store(cachedCustomFuncTypes, StripPtr(t), fn)
    /\ cachedStructTypes' = IF fn # "nil" /\ Kind(StripPtr(t)) = "Struct"
                            THEN Delete(cachedStructTypes, StripPtr(t)) ELSE cachedStructTypes
    /\ hist' = [hist EXCEPT !.regs = @ + 1, !.call = <<"SetCustomFunc", t, fn>>]
    /\ UNCHANGED <<heap, src, goroutines, wrappers, allocators, last, cachedPointerTypes>>

\* Allocator.SetCustomFunc(t, fn)
SetCustomFunc(t, fn) ==
    /\ ~last.div /\ hist.regs < MaxRegs
    /\ IF fn = "nil"
       THEN /\ cachedCustomFuncTypes' = Delete(cachedCustomFuncTypes, t)
            /\ hist' = [hist EXCEPT !.regs = @ + 1,
                                    !.removed = @ \cup {T \in DOMAIN hist.setBy :
                                                            hist.setBy[T] = t},
                                    !.call = <<"SetCustomFunc", t, fn>>]
       ELSE LET T == StripPtr(t)
            IN IF Kind(T) # "Struct"
               THEN /\ UNCHANGED cachedCustomFuncTypes
                    /\ hist' = [hist EXCEPT !.regs = @ + 1,
                                            !.call = <<"SetCustomFunc", t, fn>>]
               ELSE /\ cachedCustomFuncTypes' = Store(cachedCustomFuncTypes, T, fn)
                    /\ hist' = [hist EXCEPT !.regs = @ + 1,
                                   !.lateFunc = @ \cup
                                       (IF T \in DOMAIN cachedStructTypes THEN {T} ELSE {}),
                                   !.setBy = Store(@, T, t),
                                   !.removed = @ \ {T},
                                   !.call = <<"SetCustomFunc", t, fn>>]
    /\ UNCHANGED <<heap, src, goroutines, wrappers, allocators, last, cachedStructTypes, cachedPointerTypes>>

\* The ring of the first k nodes; the other nodes point nowhere.
RingNext(k) ==
    [i \in 1..MaxNodes |-> IF i < k THEN NodeAddr(i + 1)
                           ELSE IF i = k THEN NodeAddr(1) ELSE 0]

\* The values cloned in behaviours with registry calls: a Box with all its
\* members set, the pointer member P of that Box, its first node, and the
\* head of a ring of nodes.
InitReg ==
    /\ \/ /\ heap = BoxHeap(12, SliceW(16, 2, 2), 20, IfaceW("*Node", PtrW(14)), TRUE, FALSE)
          /\ src \in {IfaceW("*Box", PtrW(2)), IfaceW("**Node", PtrW(2)),
                      IfaceW("*Node", PtrW(12))}
       \/ /\ \E k \in 1..MaxNodes : heap = NodeHeap(RingNext(k))
          /\ src = IfaceW("*Node", PtrW(NodeAddr(1)))
    /\ InitRest
    /\ hist = NoHist(MaxRegClones)

NextReg ==
    \/ \E t \in {"Node", "*Box", "*int"} : MarkAsScalar(t)
    \/ \E t \in {"*Node", "Node"} : MarkAsOpaquePointer(t)
    \/ \E t \in {"Node", "*Node", "*Box", "*int"},
          fn \in {"nil", "addHundred", "cloneThenEdit"} :
          SetCustomFunc(t, fn)
    \/ CallClone
    \/ CallSlowly

SpecReg == InitReg /\ [][NextReg]_vars

(***************************************************************************)
(* Properties of Clone and Slowly on the values above.                     *)
(***************************************************************************)
\* The value cloned has no pointer cycle.
Acyclic  == ~Cyclic(last.pre, src)

\* C1: for a value without pointer cycles, Clone and Slowly return a value of
\* the same dynamic type that is deeply equal to the original.
C1_DeepEqual ==
    (last.op \in {"Clone", "Slowly"} /\ Acyclic) =>
        /\ ~last.div
        /\ last.val.t = src.t
        /\ DeepEqW(last.pre, last.post, "interface{}", src, last.val)

\* A Box with a node pointer, a slice, a map and a pointer held in an
\* interface has been cloned by each entry point.
C1_Witness ==
    /\ last.op = "Clone" /\ Acyclic /\ src.t = "*Box"
    /\ last.pre.mem[2].v = 12 /\ last.pre.mem[3].len = 2
    /\ last.pre.mem[4].v = 20 /\ last.pre.mem[5].t = "*Node"
    /\ last.pre.mem[13].v = 14

\* The addresses and maps among items X.
Where(X) == {<<x[1], x[3]>> : x \in X}

\* Heaps h1 and h2 hold the same contents at every item of X.
SameAt(h1, h2, X) ==
    \A x \in X : IF x[3] = "map" THEN h1.maps[x[1]] = h2.maps[x[1]]
                 ELSE h1.mem[x[1]] = h2.mem[x[1]]

\* C2: after Clone of a value without cycles (nothing marked scalar or opaque,
\* no tagged member), nothing the clone refers to is referred to by the
\* source; a write through the clone leaves everything the source reaches
\* unchanged, and a write through the source leaves the clone unchanged.
C2_Independent ==
    (last.op = "Clone" /\ ~last.div /\ Acyclic) =>
        /\ Where(Targets(last.post, last.val)) \cap Where(Targets(last.post, src)) = {}
        /\ hist.side = "clone"  => SameAt(last.post, heap, Targets(last.post, src))
        /\ hist.side = "source" => SameAt(last.post, heap, Targets(last.post, last.val))

\* An entry of the clone's map of a Box has been overwritten.
C2_Witness ==
    /\ last.op = "Clone" /\ Acyclic /\ hist.side = "clone" /\ src.t = "*Box"
    /\ \E id \in DOMAIN heap.maps : id > last.base /\ heap.maps[id] # last.post.maps[id]

(***************************************************************************)
(* Corresponding positions of the source and the clone.                    *)
(***************************************************************************)
\* The type of the reference held in a word of leaf type ct.
RefType(ct, w) == IF Kind(ct) = "Interface" THEN w.t ELSE ct

\* The pairs <<item of the source, item of the clone>> two words at the same
\* position refer to.
PairsOfWord(ct, w1, w2) ==
    LET t == RefType(ct, w1)
    IN IF t = "" \/ w1.v = 0 \/ w2.v = 0 \/ RefType(ct, w2) # t THEN {}
       ELSE LET e  == Types[t].elem
                ft == FlatTypes(e)
                At(i) == <<<<w1.v + i - 1, ft[((i - 1) % Len(ft)) + 1], "cell">>,
                           <<w2.v + i - 1, ft[((i - 1) % Len(ft)) + 1], "cell">>>>
            IN CASE Kind(t) = "Ptr"   -> {At(i) : i \in 1..Len(ft)}
                 [] Kind(t) = "Slice" -> {At(i) : i \in 1..(Min({w1.len, w2.len}) * Len(ft))}
                 [] Kind(t) = "Map"   -> {<<<<w1.v, t, "map">>, <<w2.v, t, "map">>>>}
                 [] OTHER             -> {}

\* <<leaf type, word of the source, word of the clone>> held at a pair of items.
WordsAt(h, p) ==
    IF p[1][3] = "map"
    THEN {<<Types[p[1][2]].elem, h.maps[p[1][1]][k], h.maps[p[2][1]][k]>> :
            k \in DOMAIN h.maps[p[1][1]] \cap DOMAIN h.maps[p[2][1]]}
    ELSE {<<p[1][2], h.mem[p[1][1]], h.mem[p[2][1]]>>}

RECURSIVE PairClosure(_, _)
PairClosure(h, S) ==
    LET S2 == S \cup UNION {PairsOfWord(x[1], x[2], x[3]) : x \in UNION {WordsAt(h, p) : p \in S}}
    IN IF S2 = S THEN S ELSE PairClosure(h, S2)

\* <<type, target in the source, target in the clone>> of every non-nil
\* pointer or map of source value v and of the reference at the same position
\* of clone c.
Refs(h, v, c) ==
    LET words == {<<"interface{}", v, c>>} \cup
                 UNION {WordsAt(h, p) : p \in PairClosure(h, PairsOfWord("interface{}", v, c))}
        refs  == {x \in words : /\ RefType(x[1], x[2]) # ""
                                /\ Kind(RefType(x[1], x[2])) \in {"Ptr", "Map"}
                                /\ x[2].v # 0}
    IN {<<RefType(x[1], x[2]), x[2].v, x[3].v>> : x \in refs}

\* C3: Slowly maps two references of the source with the same target to
\* references with one and the same newly allocated target, and references
\* with different targets to references with different targets.
C3_Aliasing ==
    (last.op = "Slowly" /\ ~last.div) =>
        LET R == Refs(last.post, src, last.val)
        IN \A r1 \in R :
              /\ r1[3] > last.base
              /\ \A r2 \in R : r1[1] = r2[1] => ((r1[2] = r2[2]) <=> (r1[3] = r2[3]))

\* Slowly has cloned a Box in which P, A[0], A[1], S[0] and M[1] all refer to
\* the first node, and S[1], M[2], I and the first node to the second.
C3_Witness ==
    /\ last.op = "Slowly" /\ ~last.div /\ src.t = "*Box"
    /\ last.pre.mem[2].v = 12 /\ last.pre.mem[6].v = 12 /\ last.pre.mem[3].len = 2
    /\ last.pre.mem[4].v = 20 /\ last.pre.mem[5].t = "*Node"
    /\ Cardinality({r \in Refs(last.post, src, last.val) : r[2] = 12}) = 1
    /\ Cardinality({r \in Refs(last.post, src, last.val) : r[1] = "*Node"}) = 2

(***************************************************************************)
(* Rings of nodes.                                                         *)
(***************************************************************************)
WalkSteps == 10   \* the steps of the walk over the cloned ring

RECURSIVE Walk(_, _, _)
\* The node reached from node a by following Next j times (0 once nil).
Walk(h, a, j) == IF j = 0 \/ a = 0 THEN a ELSE Walk(h, h.mem[a + 1].v, j - 1)

\* The number of nodes of the ring node a is on (0: a is on no ring).
RingLen(h, a) ==
    LET K == {k \in 1..(Len(h.mem) \div 2) : Walk(h, a, k) = a}
    IN IF a = 0 \/ K = {} THEN 0 ELSE Min(K)

\* The data of the nodes met on a walk of n steps from node a.
WalkData(h, a, n) == [j \in 1..n |-> h.mem[Walk(h, a, j - 1)].v]

\* C4: Slowly of the head of a ring of k nodes terminates and returns the head
\* of a ring of exactly k newly allocated nodes with the data in the same
\* order; the walk of 10 steps over the clone of the ring 1,2,3 reads
\* 1,2,3,1,2,3,1,2,3,1.
C4_Ring ==
    (last.op = "Slowly" /\ src.t = "*Node" /\ RingLen(last.pre, src.v) > 0) =>
        LET k == RingLen(last.pre, src.v)
            c == last.val.v
        IN /\ ~last.div
           /\ c > last.base
           /\ RingLen(last.post, c) = k
           /\ \A j \in 0..WalkSteps : Walk(last.post, c, j) > last.base
           /\ Cardinality({Walk(last.post, c, j) : j \in 0..WalkSteps}) = k
           /\ Len(last.allocs) = k
           /\ \A i \in 1..k : last.allocs[i].how = "new" /\ last.allocs[i].t = "Node"
           /\ WalkData(last.post, c, WalkSteps) = WalkData(last.pre, src.v, WalkSteps)
           /\ WalkData(last.pre, src.v, k) = <<1, 2, 3>> =>
                 WalkData(last.post, c, WalkSteps) = <<1, 2, 3, 1, 2, 3, 1, 2, 3, 1>>

\* Slowly has cloned the ring of the three nodes 1, 2, 3.
C4_Witness ==
    /\ last.op = "Slowly" /\ src.t = "*Node" /\ RingLen(last.pre, src.v) = 3
    /\ WalkData(last.pre, src.v, 3) = <<1, 2, 3>>
    /\ ~last.div /\ RingLen(last.post, last.val.v) = 3

(***************************************************************************)
(* Pointers to members.                                                    *)
(***************************************************************************)
\* The members of struct type S a pointer of type t to address p points to,
\* when a value of type S is stored at s.
MembersAt(S, s, t, p) ==
    {i \in 1..Len(Types[S].fields) :
        /\ Offset(S, i) = p - s
        /\ Types[S].fields[i].type = Types[t].elem}

\* Every pointer of the source to one of the members I(S) of a struct S that
\* the source also refers to is, in the clone, the address of that member
\* of the clone of S.
MemberPointersFollow(I(_)) ==
    LET R == Refs(last.post, src, last.val)
    IN \A q \in R, r \in R :
          (/\ Kind(q[1]) = "Ptr" /\ Kind(r[1]) = "Ptr"
           /\ Kind(Types[q[1]].elem) = "Struct"
           /\ MembersAt(Types[q[1]].elem, q[2], r[1], r[2]) \cap I(Types[q[1]].elem) # {})
          => r[3] = q[3] + (r[2] - q[2])

AllMembers(S) == 1..Len(Types[S].fields)

\* The members the default classification lists as pointer fields.
PointerMembers(S) ==
    LET st == loadStructType(S, <<>>, <<>>, "IsScalar").st
    IN {st.PointerFields[i].Index : i \in DOMAIN st.PointerFields}

\* C5 as stated: after Slowly a pointer to any member stored by value inside a
\* struct the source refers to is the address of that member in the clone of
\* the struct.
C5_AnyMember ==
    (last.op = "Slowly" /\ ~last.div) => MemberPointersFollow(AllMembers)

\* C5, amended: the same for the members that hold references (the pointer
\* fields of the struct's classification); a scalar member is copied with the
\* bytes of the struct and a pointer to it gets a copy of its own.
C5_PointerMember ==
    (last.op = "Slowly" /\ ~last.div) => MemberPointersFollow(PointerMembers)

\* Slowly reached &list.root before the list: the Elem it allocated for it is
\* stale and the pointer was fixed.
C5_Witness ==
    /\ last.op = "Slowly" /\ ~last.div /\ src.t = "*Elem" /\ src.v = 2
    /\ last.stale # {}
    /\ \E q \in Refs(last.post, src, last.val) : q[1] = "*List" /\ q[3] = last.val.v

(***************************************************************************)
(* Properties of clones under registry calls (SpecReg).  last.reg is the   *)
(* registry as the latest call found it.                                   *)
(***************************************************************************)
\* The pointer types of v and of everything v refers to.
PointerTypes(h, v) ==
    {t \in {v.t} \cup {RefType(x[2], h.mem[x[1]]) : x \in {y \in Targets(h, v) : y[3] = "cell"}} :
        t # "" /\ Kind(t) = "Ptr"}

\* Some part of v is marked opaque or scalar, or has a custom function.
Customized(reg, h, v) ==
    \E t \in PointerTypes(h, v) :
        \/ t \in reg.opaque
        \/ /\ Kind(Types[t].elem) = "Struct"
           /\ \/ Types[t].elem \in DOMAIN reg.funcs
              \/ /\ Types[t].elem \in DOMAIN reg.cst
                 /\ reg.cst[Types[t].elem] # loadStructType(Types[t].elem, <<>>, <<>>, "IsScalar").st

\* C6 as stated: Clone does not terminate on any value with a pointer cycle.
C6_EveryCycle ==
    (last.op = "Clone" /\ Cyclic(last.pre, src)) => last.div

\* C6, amended: Clone does not terminate on a value with a pointer cycle of
\* which no part is marked scalar or opaque or has a custom function.
C6_PlainCycle ==
    (last.op = "Clone" /\ Cyclic(last.pre, src) /\ ~Customized(last.reg, last.pre, src))
        => last.div

\* Clone was called on a ring of two nodes under the registry as constructed.
C6_Witness ==
    /\ last.op = "Clone" /\ RingLen(last.pre, src.v) = 2
    /\ ~Customized(last.reg, last.pre, src) /\ last.div

\* C7: with *Node marked opaque (and no custom function run), the clone holds
\* the source's pointer wherever the source holds a non-nil *Node, no Node is
\* allocated or traversed, and the clone of a **Node is a new pointer cell
\* holding the source's *Node.
C7_Opaque ==
    (last.op # "none" /\ "*Node" \in last.reg.opaque /\ last.calls = <<>>) =>
        /\ ~last.div
        /\ \A r \in Refs(last.post, src, last.val) : r[1] = "*Node" => r[3] = r[2]
        /\ \A i \in DOMAIN last.allocs : last.allocs[i].t # "Node"
        /\ (src.t = "**Node" /\ ~("**Node" \in last.reg.opaque)) =>
              /\ last.val.v > last.base
              /\ last.post.mem[last.val.v] = last.pre.mem[src.v]
              /\ last.pre.mem[src.v].v # 0

\* A **Node was cloned by Slowly, and a Box by Clone, with *Node opaque.
C7_Witness ==
    /\ last.op = "Slowly" /\ "*Node" \in last.reg.opaque /\ src.t = "**Node"
    /\ last.val.v > last.base /\ last.post.mem[last.val.v].v = 12

\* C8: once MarkAsScalar was called for struct type T, whether T was
\* classified before or not, the clone of a pointer to a T is a pointer to
\* one new T holding the very words of the source: the same pointers, the
\* same map, the same slice.
C8_Scalar ==
    (/\ last.op # "none" /\ Kind(src.t) = "Ptr" /\ src.v # 0
     /\ Types[src.t].elem \in last.reg.scalar /\ ~(src.t \in last.reg.opaque)) =>
        /\ ~last.div
        /\ last.val.v > last.base
        /\ \A i \in 0..(Size(Types[src.t].elem) - 1) :
              last.post.mem[last.val.v + i] = last.pre.mem[src.v + i]
        /\ last.calls = <<>>
        /\ Len(last.allocs) = 1

\* A Box was cloned member by member, then marked scalar, then cloned again.
C8_Witness ==
    /\ last.op # "none" /\ src.t = "*Box" /\ "Box" \in last.reg.lateScalar
    /\ last.val.v > last.base /\ last.post.mem[last.val.v + 2].v = 20

\* The struct type the source points to ("" when it points to none).
SrcStruct ==
    IF src.t # "" /\ Kind(src.t) = "Ptr" /\ src.v # 0 /\ Kind(Types[src.t].elem) = "Struct"
    THEN Types[src.t].elem ELSE ""

\* The calls of custom functions on the value of type T at address a.
CallsOn(T, a) == {i \in DOMAIN last.calls : last.calls[i].t = T /\ last.calls[i].a = a}

\* C9: when the custom function of the struct the source points to (a value
\* without cycles) runs and calls allocator.Clone on its own source value,
\* the call returns, the function is not invoked on that value again, and
\* the function receives the default clone: with no other mark or function
\* in play the result is deeply equal to the source in every member but the
\* number member the function edits, and shares nothing with the source.
C9_Reentrant ==
    (/\ last.op # "none" /\ SrcStruct # "" /\ Acyclic
     /\ Len(last.calls) >= 1
     /\ last.calls[1].fn = "cloneThenEdit"
     /\ last.calls[1].t = SrcStruct /\ last.calls[1].a = src.v) =>
        LET T   == SrcStruct
            off == Offset(T, IntField(T))
            c   == last.val.v
        IN /\ ~last.div
           /\ Cardinality(CallsOn(T, src.v)) = 1
           /\ c > last.base
           /\ last.post.mem[c + off].v = last.pre.mem[src.v + off].v + 1000
           /\ (Len(last.calls) = 1 /\ last.reg.opaque = {} /\ last.reg.scalar = {}) =>
                 /\ \A i \in 0..(Size(T) - 1) :
                       i # off => DeepEqW(last.pre, last.post, FlatTypes(T)[i + 1],
                                          last.pre.mem[src.v + i], last.post.mem[c + i])
                 /\ Where(Targets(last.post, last.val)) \cap Where(Targets(last.post, src)) = {}

\* The custom function of Box ran on the Box and cloned it by the default
\* algorithm: the clone has its own first node.
C9_Witness ==
    /\ last.op = "Clone" /\ src.t = "*Box" /\ Len(last.calls) = 1
    /\ last.calls[1].fn = "cloneThenEdit" /\ ~last.div
    /\ last.post.mem[last.val.v].v > last.base
    /\ last.post.mem[last.val.v + 6].v = 1007

\* C10 as stated: once a custom function is registered for struct type T
\* (and T is not marked scalar, nor the pointer to it opaque), every clone of
\* a pointer to a T invokes it on the T with a zero destination, whether or
\* not T was cloned before; and so does the nested clone the custom function
\* of a Box performs for the node the Box points to.
C10_InvokedAlways ==
    /\ (/\ last.op # "none" /\ SrcStruct # ""
        /\ SrcStruct \in DOMAIN last.reg.funcs
        /\ ~(SrcStruct \in last.reg.scalar) /\ ~(src.t \in last.reg.opaque)) =>
          \E i \in CallsOn(SrcStruct, src.v) :
              last.calls[i].fn = last.reg.funcs[SrcStruct] /\ last.calls[i].zero
    /\ (/\ last.op # "none" /\ SrcStruct = "Box"
        /\ Len(last.calls) >= 1 /\ last.calls[1].fn = "cloneThenEdit"
        /\ "Node" \in DOMAIN last.reg.funcs
        /\ ~("Node" \in last.reg.scalar) /\ ~("*Node" \in last.reg.opaque)) =>
          \E i \in CallsOn("Node", last.pre.mem[src.v].v) :
              last.calls[i].fn = last.reg.funcs["Node"] /\ last.calls[i].zero

\* The same for the struct types that had not been classified when their
\* custom function was registered.
C10_InvokedIfFirst ==
    /\ (/\ last.op # "none" /\ SrcStruct # ""
        /\ SrcStruct \in DOMAIN last.reg.funcs
        /\ ~(SrcStruct \in last.reg.lateFunc)
        /\ ~(SrcStruct \in last.reg.scalar) /\ ~(src.t \in last.reg.opaque)) =>
          \E i \in CallsOn(SrcStruct, src.v) :
              last.calls[i].fn = last.reg.funcs[SrcStruct] /\ last.calls[i].zero
    /\ (/\ last.op # "none" /\ SrcStruct = "Box"
        /\ Len(last.calls) >= 1 /\ last.calls[1].fn = "cloneThenEdit"
        /\ "Node" \in DOMAIN last.reg.funcs
        /\ ~("Node" \in last.reg.lateFunc)
        /\ ~("Node" \in last.reg.scalar) /\ ~("*Node" \in last.reg.opaque)) =>
          \E i \in CallsOn("Node", last.pre.mem[src.v].v) :
              last.calls[i].fn = last.reg.funcs["Node"] /\ last.calls[i].zero

(***************************************************************************)
(* Struct tags.  A Tagged at 2, two nodes at 14 and 16, and the backing    *)
(* array of its slices at 18.                                              *)
(***************************************************************************)
TaggedHeap(n, t, ts, pts, sh, sl, sls) ==
    [mem  |-> <<MapHdr,
                IntW(3), IntW(n), IntW(6), IntW(8),
                PtrW(t), PtrW(ts), PtrW(pts), PtrW(sh),
                sl, sls, PtrW(14), PtrW(0),
                IntW(1), PtrW(16),
                IntW(2), PtrW(0),
                PtrW(14), PtrW(16)>>,
     maps |-> <<>>]

\* from := &Tagged{...}: every tagged member set or not.
InitTag ==
    /\ \E n \in {0, 5}, t \in {0, 14}, ts \in {0, 14}, pts \in {0, 16}, sh \in {0, 14},
          sl \in {SliceW(0, 0, 0), SliceW(18, 2, 2)},
          sls \in {SliceW(0, 0, 0), SliceW(18, 1, 2)} :
            heap = TaggedHeap(n, t, ts, pts, sh, sl, sls)
    /\ src = IfaceW("*Tagged", PtrW(2))
    /\ InitRest
    /\ hist = NoHist(MaxClones)

SpecTag == InitTag /\ [][Next]_vars

\* The members of struct type t with tag g (one of G).
Tagged(t, G) == {i \in 1..Len(Types[t].fields) : Types[t].fields[i].tag \in G}

\* Member i of the struct of type t at address a in heap h1 is deeply equal
\* to the same member of the struct at address c in heap h2.
MemberEq(h1, h2, t, i, a, c) ==
    \A j \in 1..Size(Types[t].fields[i].type) :
        DeepEqW(h1, h2, FlatTypes(Types[t].fields[i].type)[j],
                h1.mem[a + Offset(t, i) + j - 1], h2.mem[c + Offset(t, i) + j - 1])

\* C12: in every clone of a Tagged, made by Clone or by Slowly, each member
\* tagged clone:"skip" or clone:"-" is the zero value of its type, whatever it
\* holds in the source (number, string, pointer, slice, array; exported or
\* not); each untagged member is deeply equal to the source's, and an
\* untagged pointer or slice that is set refers to memory the call allocated.
C12_SkipZero ==
    last.op # "none" =>
        /\ ~last.div /\ last.val.t = "*Tagged" /\ last.val.v > last.base
        /\ \A d \in SkippedCells("Tagged") :
              last.post.mem[last.val.v + d] = Zero("Tagged")[d + 1]
        /\ \A i \in Tagged("Tagged", {""}) :
              /\ MemberEq(last.pre, last.post, "Tagged", i, src.v, last.val.v)
              /\ last.pre.mem[src.v + Offset("Tagged", i)].k \in {"ptr", "slice"} =>
                    \/ last.pre.mem[src.v + Offset("Tagged", i)].v = 0
                    \/ last.post.mem[last.val.v + Offset("Tagged", i)].v > last.base

\* A Tagged whose skipped number, pointers and slice are all set, and whose
\* untagged pointer is set, has been cloned.
C12_Witness ==
    /\ last.op = "Slowly" /\ ~last.div
    /\ last.pre.mem[3].v = 5 /\ last.pre.mem[7].v = 14 /\ last.pre.mem[8].v = 16
    /\ last.pre.mem[11].len = 1 /\ last.pre.mem[6].v = 14
    /\ last.post.mem[last.val.v + 4].v > last.base
    /\ last.post.mem[last.val.v + 5].v = 0

RECURSIVE ChainOf(_, _)
\* The nodes of the list that starts at node a (none for nil).
ChainOf(h, a) == IF a = 0 THEN <<>> ELSE <<a>> \o ChainOf(h, h.mem[a + 1].v)

\* The lists the untagged members of the Tagged at a lead to: one for member
\* t, one for each element of TSlice.
UntaggedChains(h, a) ==
    <<ChainOf(h, h.mem[a + 4].v)>> \o
    [i \in 1..h.mem[a + 8].len |-> ChainOf(h, h.mem[h.mem[a + 8].v + i - 1].v)]

\* The nodes a clone of the Tagged at a allocates for its untagged members:
\* Clone one per node of each list, Slowly one per distinct node.
NodesCloned(op, h, a) ==
    LET C == UntaggedChains(h, a)
        RECURSIVE Sum(_)
        Sum(n) == IF n = 0 THEN 0 ELSE Sum(n - 1) + Len(C[n])
    IN IF op = "Slowly"
       THEN Cardinality(UNION {{C[i][j] : j \in 1..Len(C[i])} : i \in 1..Len(C)})
       ELSE Sum(Len(C))

\* C13: in every clone of a Tagged the member tagged clone:"shadowcopy" holds
\* the source's pointer, and its referent is not cloned: the only nodes
\* allocated are those the untagged members lead to.
C13_ShadowCopy ==
    last.op # "none" =>
        /\ ~last.div /\ last.val.v > last.base
        /\ \A i \in Tagged("Tagged", {"shadowcopy"}) :
              last.post.mem[last.val.v + Offset("Tagged", i)]
                  = last.pre.mem[src.v + Offset("Tagged", i)]
        /\ Cardinality({i \in DOMAIN last.allocs : last.allocs[i].t = "Node"})
              = NodesCloned(last.op, last.pre, src.v)

\* A Tagged whose shadowcopy member points to a node, and nothing else does,
\* has been cloned: the clone holds that pointer and no node was allocated.
C13_Witness ==
    /\ last.op = "Clone" /\ ~last.div
    /\ last.pre.mem[9].v = 14 /\ last.pre.mem[6].v = 0 /\ last.pre.mem[10].v = 0
    /\ last.post.mem[last.val.v + 7].v = 14
    /\ \A i \in DOMAIN last.allocs : last.allocs[i].t # "Node"

(***************************************************************************)
(* Removal of a custom function.                                           *)
(***************************************************************************)
\* C11: after SetCustomFunc(t, fn) followed by SetCustomFunc(t, nil) with the
\* same t, no later clone invokes a custom function on a value of the struct
\* type t stands for.
C11_Removed ==
    last.op # "none" =>
        \A i \in DOMAIN last.calls : last.calls[i].t \notin last.reg.removed

\* A function is invoked after its removal only when the removal left it in
\* cachedCustomFuncTypes (t was a pointer type) or the struct type was
\* classified, function included, before the call.
C11_RemovedUncached ==
    last.op # "none" =>
        \A i \in DOMAIN last.calls :
            last.calls[i].t \in last.reg.removed =>
                \/ last.calls[i].t \in DOMAIN last.reg.funcs
                \/ last.calls[i].t \in DOMAIN last.reg.cst

(***************************************************************************)
(* The wrapper: Wrap, Unwrap and Undo.  The table maps the pointer Wrap    *)
(* returned, <<address, pointer type>>, to the address of the original.    *)
(***************************************************************************)
MaxWrapCalls  == 3   \* Wrap / Unwrap / Undo calls in one behaviour
MaxWrapWrites == 2   \* writes through wrapped pointers and the original

\* v (an interface{} word) is a pointer to a struct.
isWrappable(v) ==
    v.t # "" /\ Kind(v.t) = "Ptr" /\ Kind(Types[v.t].elem) = "Struct"

WrapKey(v) == <<v.v, v.t>>

\* A lookup that finds no pointer in the table.
isWrapped_Never(tbl, v) == FALSE

\* v is a pointer that Wrap returned.
isWrapped(tbl, v) == v.t # "" /\ WrapKey(v) \in DOMAIN tbl

\* The fast clone r of original v is returned, and retained in the table
\* when the clone returned at all.
Retain(tbl, v, r) ==
    [val |-> r.val, st |-> r.st,
     tbl |-> IF r.st.div THEN tbl ELSE (WrapKey(r.val) :> v.v) @@ tbl]

\* A call that leaves everything as it is and returns v.
Unchanged(h, cache, tbl, v) ==
    [val |-> v, st |-> NewState(h, cache, FALSE, NoValue, "asc"), tbl |-> tbl]

\* A Wrap whose clone shares the maps and slices of the original.
Wrap_Shallow(h, cache, tbl, v, ord) ==
    IF ~isWrappable(v) \/ isWrapped(tbl, v)
    THEN Unchanged(h, cache, tbl, v)
    ELSE Retain(tbl, v, Clone(h, Store(cache, Types[v.t].elem, zeroStructType), v, ord))

\* Wrap(v): v itself unless v is a pointer to a struct that is not wrapped;
\* otherwise a pointer to a fast clone of the struct.
Wrap(h, cache, tbl, v, ord) ==
    IF ~isWrappable(v) \/ isWrapped(tbl, v)
    THEN Unchanged(h, cache, tbl, v)
    ELSE Retain(tbl, v, Clone(h, cache, v, ord))

\* An Unwrap that returns its argument.
Unwrap_Self(tbl, v) == v

\* Unwrap(v): the original of a wrapped pointer, anything else as it is.
Unwrap(tbl, v) == IF isWrapped(tbl, v) THEN IfaceW(v.t, PtrW(tbl[WrapKey(v)])) ELSE v

\* An Undo that leaves the wrapped struct as it is.
Overwrite_None(tbl, v, r) == [val |-> v, st |-> r.st, tbl |-> tbl]

\* The struct behind wrapped pointer v overwritten in place by the struct
\* behind the fresh clone r.val.
Overwrite(tbl, v, r) ==
    [val |-> v,
     st  |-> IF r.st.div THEN r.st
             ELSE [r.st EXCEPT !.mem = Poke(@, v.v, Load(r.st.mem, r.val.v,
                                                         Types[v.t].elem, FALSE).w)],
     tbl |-> tbl]

\* An Undo that treats every pointer to a struct as wrapping itself.
Undo_Any(h, cache, tbl, v, ord) ==
    IF ~isWrappable(v) THEN Unchanged(h, cache, tbl, v)
    ELSE Overwrite(tbl, v, Clone(h, cache, v, ord))

\* Undo(v): nothing unless v is wrapped; otherwise a fresh fast clone of the
\* original overwrites the contents of v in place.
Undo(h, cache, tbl, v, ord) ==
    IF ~isWrapped(tbl, v) THEN Unchanged(h, cache, tbl, v)
    ELSE Overwrite(tbl, v, Clone(h, cache, Unwrap(tbl, v), ord))

\* A Conf at 2 (Foo, Bar, Player), a node at 5, the backing array of Player
\* at 7, the map Bar at 9.
ConfHeap(bar, player) ==
    [mem  |-> <<MapHdr, IntW(3), MapW(bar), player,
                IntW(1), PtrW(0), IntW(4), IntW(5), MapHdr>>,
     maps |-> (9 :> ((1 :> PtrW(5)) @@ (2 :> PtrW(0))))]

\* The values handed to Wrap, Unwrap and Undo first: nil, a number, a slice,
\* a map, a pointer to a number, and pointers to structs.
InitWrap ==
    /\ \E bar \in {0, 9}, player \in {SliceW(0, 0, 0), SliceW(7, 2, 2)} :
          heap = ConfHeap(bar, player)
    /\ src \in {NilIface, IfaceW("int", IntW(7)), IfaceW("[]int", SliceW(7, 2, 2)),
                IfaceW("map[int]*Node", MapW(9)), IfaceW("*int", PtrW(7)),
                IfaceW("*Conf", PtrW(2)), IfaceW("*Node", PtrW(5))}
    /\ InitRest
    /\ hist = NoHist(MaxWrapCalls)

\* The values a call is made on: the value given first and every pointer
\* Wrap returned.
Inputs == {src} \cup {IfaceW(k[2], PtrW(k[1])) : k \in DOMAIN wrappers}

\* The effect of call op(x) with outcome r; the pointers Wrap returned are
\* remembered with their originals.
WrapEffect(op, x, r) ==
    /\ last' = [arg |-> x, tbl |-> wrappers] @@ Called(op, r)
    /\ heap' = last'.post
    /\ cachedStructTypes' = r.st.cst
    /\ wrappers' = r.tbl
    /\ hist' = [hist EXCEPT !.clones = @ + 1, !.side = "none",
                            !.undos = IF op = "Undo" THEN @ + 1 ELSE @,
                            !.wrapped = @ \cup
                                (IF op = "Wrap" /\ r.val # x /\ ~r.st.div
                                 THEN {<<r.val.v, r.val.t, x.v>>} ELSE {})]
    /\ UNCHANGED <<src, goroutines, allocators, cachedPointerTypes, cachedCustomFuncTypes>>

\* w := Wrap(x)
CallWrap ==
    /\ ~last.div /\ hist.clones < hist.max
    /\ \E x \in Inputs, ord \in {"asc", "desc"} :
          WrapEffect("Wrap", x, Wrap(heap, cachedStructTypes, wrappers, x, ord))

\* v := Unwrap(x)
CallUnwrap ==
    /\ ~last.div /\ hist.clones < hist.max
    /\ \E x \in Inputs :
          WrapEffect("Unwrap", x,
                     [Unchanged(heap, cachedStructTypes, wrappers, x)
                         EXCEPT !.val = Unwrap(wrappers, x)])

\* Undo(x)
CallUndo ==
    /\ ~last.div /\ hist.clones < hist.max
    /\ \E x \in Inputs, ord \in {"asc", "desc"} :
          WrapEffect("Undo", x, Undo(heap, cachedStructTypes, wrappers, x, ord))

\* A write to a field, map entry or slice element of a wrapped value.
WriteThroughWrapped ==
    /\ ~last.div /\ hist.writes < MaxWrapWrites
    /\ \E k \in DOMAIN wrappers :
          \E x \in Targets(heap, IfaceW(k[2], PtrW(k[1]))) : WriteItem(x)
    /\ hist' = [hist EXCEPT !.writes = @ + 1, !.side = "clone"]
    /\ UNCHANGED <<src, goroutines, wrappers, allocators, cachedStructTypes, cachedPointerTypes,
                   cachedCustomFuncTypes, last>>

\* A write to a field, map entry or slice element of the original.
WriteThroughOriginal ==
    /\ ~last.div /\ hist.writes < MaxWrapWrites /\ wrappers # <<>>
    /\ \E x \in Targets(heap, src) : WriteItem(x)
    /\ hist' = [hist EXCEPT !.writes = @ + 1, !.side = "source"]
    /\ UNCHANGED <<src, goroutines, wrappers, allocators, cachedStructTypes, cachedPointerTypes,
                   cachedCustomFuncTypes, last>>

NextWrap ==
    CallWrap \/ CallUnwrap \/ CallUndo \/ WriteThroughWrapped \/ WriteThroughOriginal

SpecWrap == InitWrap /\ [][NextWrap]_vars

(***************************************************************************)
(* Properties of the wrapper.                                              *)
(***************************************************************************)
\* The pointers Wrap has returned as wrappers so far.
WrappedPtrs == {<<e[1], e[2]>> : e \in hist.wrapped}

\* The interface{} holding the pointer of type t to address a.
PtrIface(t, a) == IfaceW(t, PtrW(a))

\* C14: for every pointer w that Wrap returned for original orig, at any
\* later time (after writes through w, after Undo calls) Unwrap(w) is the
\* pointer orig itself, and every Unwrap(w) that was called returned it.
C14_UnwrapOriginal ==
    /\ \A e \in hist.wrapped :
          /\ e[3] = src.v /\ e[2] = src.t
          /\ Unwrap(wrappers, PtrIface(e[2], e[1])) = src
    /\ (last.op = "Unwrap" /\ WrapKey(last.arg) \in WrappedPtrs) => last.val = src

\* Unwrap was called on a wrapped pointer after an Undo and two writes.
C14_Witness ==
    /\ last.op = "Unwrap" /\ WrapKey(last.arg) \in WrappedPtrs
    /\ hist.undos > 0 /\ hist.writes = 2 /\ last.val = src /\ src.t = "*Conf"

\* The step is a write through the original.
OriginalWritten == hist'.side = "source" /\ hist'.writes = hist.writes + 1

\* C15: the pointer a Wrap call returns for orig points to a value deeply
\* equal to orig's, and no step other than a write through orig itself (no
\* Wrap, Unwrap or Undo call, no write to a field, map entry or slice element
\* of a wrapped value) changes anything orig refers to.
C15_Isolated ==
    [][/\ (last'.op = "Wrap" /\ wrappers' # wrappers) =>
              /\ last'.val # last'.arg
              /\ DeepEqW(heap', heap', "interface{}", last'.arg, last'.val)
       /\ (wrappers' # <<>> /\ ~OriginalWritten) =>
              SameAt(heap, heap', Targets(heap, src))]_vars

\* Two writes have gone through a wrapped Conf, one of them to an entry of
\* its map, with an Undo in between or before.
C15_Witness ==
    /\ wrappers # <<>> /\ src.t = "*Conf" /\ hist.writes = 2 /\ hist.side = "clone"
    /\ hist.undos > 0
    /\ \E k \in DOMAIN wrappers :
          /\ heap.mem[k[1] + 1].v # 0
          /\ heap.maps[heap.mem[k[1] + 1].v][1].v = 0
    /\ heap.maps[9][1].v = 5

\* C16: Undo(w) on a wrapped pointer w returns with w pointing to a value
\* deeply equal to what the original points to at that time; w is the same
\* pointer and is still wrapped: Unwrap(w) is the original.
C16_UndoRestores ==
    (last.op = "Undo" /\ WrapKey(last.arg) \in WrappedPtrs /\ hist.side = "none") =>
        /\ ~last.div
        /\ last.val = last.arg
        /\ wrappers = last.tbl
        /\ Unwrap(wrappers, last.arg) = src
        /\ DeepEqW(heap, heap, "interface{}", src, last.arg)

\* Undo was called on a wrapped pointer after its slice was written through
\* it and the original's number through the original.
C16_Witness ==
    /\ last.op = "Undo" /\ WrapKey(last.arg) \in WrappedPtrs /\ hist.side = "none"
    /\ hist.writes = 2 /\ src.t = "*Conf"
    /\ ~DeepEqW(last.pre, last.pre, "interface{}", src, last.arg)
    /\ last.pre.mem[src.v].v = 9 /\ last.pre.mem[last.arg.v].v = 3
    /\ last.pre.mem[src.v + 2].v # 0 /\ last.pre.mem[last.arg.v + 2].v = 0
    /\ last.post.mem[last.arg.v].v = 9

\* C17: Wrap returns its argument, records nothing and allocates nothing
\* when the argument is nil, is not a pointer, is a pointer to something
\* that is not a struct, or is a pointer Wrap returned before.
C17_WrapNoop ==
    (last.op = "Wrap" /\ (~isWrappable(last.arg) \/ WrapKey(last.arg) \in WrappedPtrs)) =>
        /\ ~last.div
        /\ last.val = last.arg
        /\ wrappers = last.tbl
        /\ last.post = last.pre

\* Wrap was called on a pointer it had returned.
C17_Witness ==
    /\ last.op = "Wrap" /\ WrapKey(last.arg) \in WrappedPtrs
    /\ last.val = last.arg /\ last.arg.t = "*Conf"

\* C18: for x that Wrap never returned (nil, a number, a slice, a map, a
\* pointer to a number, a pointer to a struct), Unwrap(x) returns x, and
\* Undo(x) returns having changed no cell, no map and no table.
C18_NotWrapped ==
    (last.op \in {"Unwrap", "Undo"} /\ WrapKey(last.arg) \notin WrappedPtrs) =>
        /\ ~last.div
        /\ last.val = last.arg
        /\ wrappers = last.tbl
        /\ last.post = last.pre

\* Undo was called on the original, a pointer to a struct that is not
\* wrapped, while a wrapper of it exists.
C18_Witness ==
    /\ last.op = "Undo" /\ last.arg = src /\ src.t = "*Conf"
    /\ wrappers # <<>> /\ last.post = last.pre

(***************************************************************************)
(* Registry calls on types of the wrong shape.                             *)
(***************************************************************************)
\* The three tables of the registry are left as they are.
RegistryUnchanged ==
    UNCHANGED <<cachedStructTypes, cachedPointerTypes, cachedCustomFuncTypes>>

\* C19: a registry call leaves the struct-type cache, the opaque-pointer set
\* and the custom-function table unchanged when it is MarkAsScalar(t) with t
\* neither a struct nor pointers to one, MarkAsOpaquePointer(t) with t not a
\* pointer, or SetCustomFunc(t, fn) with a function and t neither a struct
\* nor pointers to one; MarkAsScalar(t) on a valid t sets the entry of the
\* struct type under t to zeroStructType and touches nothing else.
C19_WrongShape ==
    [][hist'.regs = hist.regs + 1 =>
        LET m == hist'.call[1]
            t == hist'.call[2]
            fn == hist'.call[3]
        IN /\ (m = "MarkAsScalar" /\ Kind(StripPtr(t)) # "Struct") => RegistryUnchanged
           /\ (m = "MarkAsOpaquePointer" /\ Kind(t) # "Ptr") => RegistryUnchanged
           /\ (m = "SetCustomFunc" /\ fn # "nil" /\ Kind(StripPtr(t)) # "Struct") =>
                 RegistryUnchanged
           /\ (m = "MarkAsScalar" /\ Kind(StripPtr(t)) = "Struct") =>
                 /\ DOMAIN cachedStructTypes' = DOMAIN cachedStructTypes \cup {StripPtr(t)}
                 /\ cachedStructTypes'[StripPtr(t)] = zeroStructType
                 /\ \A T \in DOMAIN cachedStructTypes \ {StripPtr(t)} :
                       cachedStructTypes'[T] = cachedStructTypes[T]
                 /\ UNCHANGED <<cachedPointerTypes, cachedCustomFuncTypes>>]_vars

\* SetCustomFunc was called with a function for *int while the table held a
\* function and the struct-type cache held entries.
C19_Witness ==
    /\ hist.call = <<"SetCustomFunc", "*int", "addHundred">>
    /\ DOMAIN cachedCustomFuncTypes # {}
    /\ DOMAIN cachedStructTypes # {}

(***************************************************************************)
(* Counting the calls of New.                                              *)
(***************************************************************************)
\* The calls of New that NewAllocator makes: one, for the allocator itself,
\* when methods.New is supplied.
NewAllocator(methodsNew) == IF methodsNew THEN 1 ELSE 0

\* The allocations of the latest clone made by New.
News == {i \in DOMAIN last.allocs : last.allocs[i].how = "new"}

\* cnt of an allocator made with a counting methods.New, after the latest clone.
cnt == NewAllocator(TRUE) + Cardinality(News)

\* The number of nodes of the list from node a that ends in nil (0: the list
\* is empty or runs into a ring).
ChainLen(h, a) ==
    LET K == {k \in 0..(Len(h.mem) \div 2) : Walk(h, a, k) = 0}
    IN IF K = {} THEN 0 ELSE Min(K)

\* The pointers held by the elements of the slice w that are not nil.
Pointees(h, w) == {i \in 1..w.len : h.mem[w.v + i - 1].v # 0}

\* C20: with a counting allocator, the clone of a pointer to a struct of one
\* number member makes one allocation, by New, of that struct; the clone of
\* the head of a list of n nodes (a number and a pointer each) that ends in
\* nil makes n allocations, all by New, all of nodes, one for each node of
\* the clone, and cnt is n + 1; the clone of a slice of pointers to structs
\* calls New once for each pointer cloned and for nothing else.
C20_AllocCount ==
    (last.op \in {"Clone", "Slowly"} /\ ~last.div) =>
        /\ (src.t = "*Foo") =>
              /\ Len(last.allocs) = 1 /\ cnt = 2
              /\ last.allocs[1] = [how |-> "new", t |-> "Foo", base |-> last.val.v, n |-> 1]
        /\ (src.t = "*Node" /\ ChainLen(last.pre, src.v) > 0) =>
              LET n == ChainLen(last.pre, src.v)
              IN /\ Len(last.allocs) = n /\ cnt = n + 1
                 /\ \A i \in 1..n : /\ last.allocs[i].how = "new"
                                     /\ last.allocs[i].t = "Node"
                 /\ {last.allocs[i].base : i \in 1..n} =
                       {Walk(last.post, last.val.v, j) : j \in 0..(n - 1)}
                 /\ Cardinality({last.allocs[i].base : i \in 1..n}) = n
        /\ (src.t = "[]*Foo") =>
              /\ \A i \in News : last.allocs[i].t = "Foo"
              /\ Cardinality(News) =
                    IF last.op = "Clone" THEN Cardinality(Pointees(last.pre, src))
                    ELSE Cardinality({last.pre.mem[src.v + i - 1].v :
                                         i \in Pointees(last.pre, src)})
              /\ Len(last.allocs) = Cardinality(News) + 1

\* The list 1 -> 2 -> nil was cloned with three calls of New counted.
C20_Witness ==
    /\ last.op = "Clone" /\ ~last.div /\ src.t = "*Node"
    /\ ChainLen(last.pre, src.v) = 2 /\ cnt = 3
    /\ last.post.mem[last.val.v].v = 1
    /\ last.post.mem[last.post.mem[last.val.v + 1].v].v = 2

(***************************************************************************)
(* Allocators made by NewAllocator and FromHeap: their pool, their         *)
(* methods, their own registries and their parent.                         *)
(***************************************************************************)
MaxAllocCalls == 1   \* lookups called on the allocators made by NewAllocator

\* The allocation methods of an allocator.
Ops == {"New", "MakeSlice", "MakeMap", "MakeChan"}

\* The pools handed to NewAllocator ("" is nil).
Pools == {"", "pool1", "pool2"}

\* AllocatorMethods: the allocation methods supplied, IsScalar and Parent
\* ("" for a member that is nil).
AllocatorMethods(ops, sc, parent) == [ops |-> ops, IsScalar |-> sc, Parent |-> parent]

\* A method held by an allocator: the allocator whose AllocatorMethods
\* supplied the function ("" for heapNew, heapMakeSlice, heapMakeMap and
\* heapMakeChan) and the pool the function is called with.
Method(by, pool) == [by |-> by, pool |-> pool]

\* The default allocator: the heap methods, IsScalar, and the registries that
\* the package-level functions read and write.
defaultAllocator ==
    [parent |-> "", pool |-> "", isScalar |-> "IsScalar",
     New |-> Method("", ""), MakeSlice |-> Method("", ""),
     MakeMap |-> Method("", ""), MakeChan |-> Method("", ""),
     cachedStructTypes |-> cachedStructTypes,
     cachedPointerTypes |-> cachedPointerTypes,
     cachedCustomFuncTypes |-> cachedCustomFuncTypes]

\* Every allocator of the program by name.
Allocators == ("default" :> defaultAllocator) @@ allocators

\* A methodOf that takes the heap method for every method not supplied.
methodOf_Heap(A, name, pool, methods, op) ==
    IF op \in methods.ops THEN Method(name, pool) ELSE Method("", pool)

\* The method an allocator made with `methods` holds for op: the supplied
\* one, called with the allocator's pool; without Parent the heap method;
\* with a Parent the parent's method on the parent's pool.
methodOf(A, name, pool, methods, op) ==
    IF op \in methods.ops THEN Method(name, pool)
    ELSE IF methods.Parent = "" THEN Method("", pool)
    ELSE A[methods.Parent][op]

\* The Allocator that NewAllocator(pool, methods) returns.
Allocator(A, name, pool, methods) ==
    [parent |-> IF methods.Parent = "" THEN "default" ELSE methods.Parent,
     pool |-> pool,
     isScalar |-> IF methods.IsScalar # "" THEN methods.IsScalar
                  ELSE IF methods.Parent = "" THEN "IsScalar"
                  ELSE A[methods.Parent].isScalar,
     New |-> methodOf(A, name, pool, methods, "New"),
     MakeSlice |-> methodOf(A, name, pool, methods, "MakeSlice"),
     MakeMap |-> methodOf(A, name, pool, methods, "MakeMap"),
     MakeChan |-> methodOf(A, name, pool, methods, "MakeChan"),
     cachedStructTypes |-> <<>>, cachedPointerTypes |-> {}, cachedCustomFuncTypes |-> <<>>]

\* n calls of method m: the functions supplied by callers call Get on the
\* pool they are handed, the heap methods ignore it.
Got(gets, m, n) == IF m.by = "" THEN gets ELSE [gets EXCEPT ![m.pool] = @ + n]

\* allocator := NewAllocator(pool, methods), the allocator itself allocated
\* by its New when that is not heapNew.
CallNewAllocator(name, pool, methods) ==
    /\ ~last.div /\ name \notin DOMAIN allocators
    /\ methods.Parent = "" \/ methods.Parent \in DOMAIN allocators
    /\ LET a == Allocator(Allocators, name, pool, methods)
       IN /\ allocators' = (name :> a) @@ allocators
          /\ hist' = [hist EXCEPT !.made = (name :> methods) @@ @,
                                  !.gets = Got(@, a.New, NewAllocator(a.New.by # ""))]
    /\ UNCHANGED <<heap, src, goroutines, wrappers, last,
                   cachedStructTypes, cachedPointerTypes, cachedCustomFuncTypes>>

RECURSIVE Chain(_, _)
\* Allocator a and its parents, the nearest first.
Chain(A, a) == IF a = "" THEN <<>> ELSE <<a>> \o Chain(A, A[a].parent)

\* A lookup that consults the allocator's own table only.
Inherited_Local(A, a, table) == A[a][table]

RECURSIVE Inherited(_, _, _)
\* What a lookup by allocator a finds in `table`: its own entry for a key,
\* else that of the nearest parent that has one.
Inherited(A, a, table) ==
    IF a = "" THEN <<>> ELSE A[a][table] @@ Inherited(A, A[a].parent, table)

RECURSIVE InheritedSet(_, _)
\* The pointer types a lookup by allocator a finds marked opaque.
InheritedSet(A, a) ==
    IF a = "" THEN {} ELSE A[a].cachedPointerTypes \cup InheritedSet(A, A[a].parent)

\* The entries computed against the tables `before`, kept by the allocator
\* that computed them.
StoredIn(own, after, before) ==
    [t \in DOMAIN own \cup (DOMAIN after \ DOMAIN before) |->
        IF t \in DOMAIN own THEN own[t] ELSE after[t]]

\* An allocator.MarkAsScalar(t) that marks t in the default allocator.
AllocatorMarkAsScalar_Default(a, t) ==
    /\ ~last.div /\ hist.regs < MaxRegs /\ hist.ops = {} /\ a \in DOMAIN allocators
    /\ cachedStructTypes' = IF Kind(StripPtr(t)) # "Struct" THEN cachedStructTypes
                            ELSE Store(cachedStructTypes, StripPtr(t), zeroStructType)
    /\ hist' = [hist EXCEPT !.regs = @ + 1, !.call = <<"MarkAsScalar", t, "", a>>]
    /\ UNCHANGED <<heap, src, goroutines, wrappers, allocators, last,
                   cachedPointerTypes, cachedCustomFuncTypes>>

\* allocator.MarkAsScalar(t) on an allocator made by NewAllocator
AllocatorMarkAsScalar(a, t) ==
    /\ ~last.div /\ hist.regs < MaxRegs /\ hist.ops = {} /\ a \in DOMAIN allocators
    /\ allocators' = IF Kind(StripPtr(t)) # "Struct" THEN allocators
                     ELSE [allocators EXCEPT ![a].cachedStructTypes =
                                                 Store(@, StripPtr(t), zeroStructType)]
    /\ hist' = [hist EXCEPT !.regs = @ + 1, !.call = <<"MarkAsScalar", t, "", a>>]
    /\ UNCHANGED <<heap, src, goroutines, wrappers, last,
                   cachedStructTypes, cachedPointerTypes, cachedCustomFuncTypes>>

\* allocator.MarkAsOpaquePointer(t) on an allocator made by NewAllocator
AllocatorMarkAsOpaquePointer(a, t) ==
    /\ ~last.div /\ hist.regs < MaxRegs /\ hist.ops = {} /\ a \in DOMAIN allocators
    /\ allocators' = IF Kind(t) # "Ptr" THEN allocators
                     ELSE [allocators EXCEPT ![a].cachedPointerTypes = @ \cup {t}]
    /\ hist' = [hist EXCEPT !.regs = @ + 1, !.call = <<"MarkAsOpaquePointer", t, "", a>>]
    /\ UNCHANGED <<heap, src, goroutines, wrappers, last,
                   cachedStructTypes, cachedPointerTypes, cachedCustomFuncTypes>>

\* allocator.SetCustomFunc(t, fn) on an allocator made by NewAllocator
AllocatorSetCustomFunc(a, t, fn) ==
    /\ ~last.div /\ hist.regs < MaxRegs /\ hist.ops = {} /\ a \in DOMAIN allocators
    /\ allocators' =
          IF fn = "nil"
          THEN [allocators EXCEPT ![a].cachedCustomFuncTypes = Delete(@, t)]
          ELSE IF Kind(StripPtr(t)) # "Struct" THEN allocators
          ELSE [allocators EXCEPT ![a].cachedCustomFuncTypes = Store(@, StripPtr(t), fn)]
    /\ hist' = [hist EXCEPT !.regs = @ + 1, !.call = <<"SetCustomFunc", t, fn, a>>]
    /\ UNCHANGED <<heap, src, goroutines, wrappers, last,
                   cachedStructTypes, cachedPointerTypes, cachedCustomFuncTypes>>

\* The record of a lookup or an allocation called on allocator a, with the
\* allocators as they were when it was called.
Asked(op, a, t, res) ==
    [op |-> op, a |-> a, t |-> t, res |-> res, A |-> Allocators] @@ NoCall

\* st := allocator.loadStructType(t)
CallLoadStructType(a, t) ==
    /\ ~last.div /\ hist.acalls < MaxAllocCalls /\ hist.ops = {} /\ hist.clones = 0
    /\ a \in DOMAIN allocators
    /\ LET before == Inherited(Allocators, a, "cachedStructTypes")
           r == loadStructType(t, before, Inherited(Allocators, a, "cachedCustomFuncTypes"),
                               allocators[a].isScalar)
       IN /\ last' = Asked("loadStructType", a, t, r.st)
          /\ allocators' = [allocators EXCEPT ![a].cachedStructTypes =
                                                  StoredIn(@, r.cache, before)]
    /\ hist' = [hist EXCEPT !.acalls = @ + 1, !.call = <<>>]
    /\ UNCHANGED <<heap, src, goroutines, wrappers,
                   cachedStructTypes, cachedPointerTypes, cachedCustomFuncTypes>>

\* ok := allocator.isOpaquePointer(t)
CallIsOpaquePointer(a, t) ==
    /\ ~last.div /\ hist.acalls < MaxAllocCalls /\ hist.ops = {} /\ hist.clones = 0
    /\ a \in DOMAIN allocators
    /\ last' = Asked("isOpaquePointer", a, t,
                     isOpaquePointer(InheritedSet(Allocators, a), t))
    /\ hist' = [hist EXCEPT !.acalls = @ + 1, !.call = <<>>]
    /\ UNCHANGED <<heap, src, goroutines, wrappers, allocators,
                   cachedStructTypes, cachedPointerTypes, cachedCustomFuncTypes>>

\* ok := allocator.isScalar(k)
CallIsScalar(a, k) ==
    /\ ~last.div /\ hist.acalls < MaxAllocCalls /\ hist.ops = {} /\ hist.clones = 0
    /\ a \in DOMAIN allocators
    /\ last' = Asked("isScalar", a, k, isScalar(allocators[a].isScalar, k))
    /\ hist' = [hist EXCEPT !.acalls = @ + 1, !.call = <<>>]
    /\ UNCHANGED <<heap, src, goroutines, wrappers, allocators,
                   cachedStructTypes, cachedPointerTypes, cachedCustomFuncTypes>>

\* The order in which a behaviour calls the allocation methods.
OpOrder == <<"New", "MakeSlice", "MakeMap", "MakeChan", "">>

\* allocator.New(t), allocator.MakeSlice(t, 0, 0), allocator.MakeMap(t, 0) or
\* allocator.MakeChan(t, 0): the method the allocator holds, on its pool.
CallMethod(a, op) ==
    /\ ~last.div /\ hist.regs = 0 /\ hist.acalls = 0 /\ hist.clones = 0
    /\ op = OpOrder[Cardinality(hist.ops) + 1] /\ a \in DOMAIN allocators
    /\ last' = Asked(op, a, "", allocators[a][op])
    /\ hist' = [hist EXCEPT !.ops = @ \cup {op}, !.call = <<>>,
                            !.gets = Got(@, allocators[a][op], 1)]
    /\ UNCHANGED <<heap, src, goroutines, wrappers, allocators,
                   cachedStructTypes, cachedPointerTypes, cachedCustomFuncTypes>>

\* The state of a clone call on allocator a: the registries as a lookup by a
\* finds them.
stateOf(A, a, st) ==
    [st EXCEPT !.cst = Inherited(A, a, "cachedStructTypes"),
               !.cpt = InheritedSet(A, a),
               !.ccf = Inherited(A, a, "cachedCustomFuncTypes"),
               !.isScalar = A[a].isScalar]

\* The allocations of a clone made by method `how` of the allocator.
Made(allocs, how) == Cardinality({i \in DOMAIN allocs : allocs[i].how = how})

\* cloned := allocator.Clone(reflect.ValueOf(src)).Interface()
CallAllocatorClone(a) ==
    /\ ~last.div /\ hist.clones < hist.max /\ hist.ops = {} /\ hist.acalls = 0
    /\ a \in DOMAIN allocators
    /\ src.t # "" /\ allocators[a].isScalar = "IsScalar"
    /\ \E ord \in {"asc", "desc"} :
          LET st == stateOf(Allocators, a, NewState(heap, <<>>, FALSE, NoValue, ord))
              r  == Interface(AllocatorClone(ValueOf(src), TRUE, st))
          IN /\ last' = [a |-> a, A |-> Allocators] @@ Called("Allocator.Clone", r)
             /\ heap' = last'.post
             /\ allocators' = [allocators EXCEPT ![a].cachedStructTypes =
                                                     StoredIn(@, r.st.cst, st.cst)]
             /\ hist' = [hist EXCEPT !.clones = @ + 1, !.writes = 0, !.side = "none",
                                     !.call = <<>>,
                                     !.gets = Got(Got(Got(@,
                                                 allocators[a].New, Made(r.st.allocs, "new")),
                                                 allocators[a].MakeSlice, Made(r.st.allocs, "slice")),
                                                 allocators[a].MakeMap, Made(r.st.allocs, "map"))]
    /\ UNCHANGED <<src, goroutines, wrappers, cachedStructTypes, cachedPointerTypes, cachedCustomFuncTypes>>

\* The list 1 -> 2 -> nil and a third node, a pointer to the first node to
\* clone, no allocator made yet.
InitAlloc ==
    /\ heap = NodeHeap([i \in 1..MaxNodes |-> IF i = 1 THEN NodeAddr(2) ELSE 0])
    /\ src = IfaceW("*Node", PtrW(NodeAddr(1)))
    /\ InitRest
    /\ hist = [NoHist(MaxClones) EXCEPT !.gets = [p \in Pools |-> 0]]

\* parent := NewAllocator(pool1, ...) and allocator := NewAllocator(pool, ...)
\* with or without Parent: parent, the registry calls on the three
\* allocators, the lookups and allocations on the two made, and the clones.
NextAlloc ==
    \/ \E m \in {AllocatorMethods({}, "isInt", ""),
                   AllocatorMethods({"New", "MakeSlice", "MakeMap"}, "", "")} :
          CallNewAllocator("parent", "pool1", m)
    \/ \E pool \in {"", "pool2"}, ops \in {{}, {"MakeChan"}}, parent \in {"", "parent"} :
          CallNewAllocator("allocator", pool, AllocatorMethods(ops, "", parent))
    \/ \E a \in {"parent", "allocator"} :
          \/ AllocatorMarkAsScalar(a, "*Node")
          \/ AllocatorMarkAsOpaquePointer(a, "*Node")
          \/ AllocatorSetCustomFunc(a, "*Node", "addHundred")
          \/ \E t \in {"Node", "Foo"} : CallLoadStructType(a, t)
          \/ \E t \in {"*Node", "*Foo"} : CallIsOpaquePointer(a, t)
          \/ \E k \in {"Int", "Uint"} : CallIsScalar(a, k)
          \/ \E op \in Ops : CallMethod(a, op)
          \/ CallAllocatorClone(a)
    \/ MarkAsScalar("*Node")
    \/ MarkAsOpaquePointer("*Node")
    \/ SetCustomFunc("*Node", "addHundred")
    \/ CallClone

SpecAlloc == InitAlloc /\ [][NextAlloc]_vars

(***************************************************************************)
(* Lookups through the parent chain.                                       *)
(***************************************************************************)
\* The nearest allocator among a and its parents whose `table` has an entry
\* for t ("" when none has).
Holder(A, a, table, t) ==
    LET c == Chain(A, a)
        I == {i \in DOMAIN c : t \in DOMAIN A[c[i]][table]}
    IN IF I = {} THEN "" ELSE c[Min(I)]

C22_ScopedOnly ==
    [][/\ (hist'.regs = hist.regs + 1 /\ Len(hist'.call) = 4) =>
             /\ UNCHANGED <<cachedStructTypes, cachedPointerTypes, cachedCustomFuncTypes>>
             /\ UNCHANGED <<heap, src>>
             /\ \A b \in DOMAIN allocators \ {hist'.call[4]} :
                   allocators'[b] = allocators[b]
       /\ (/\ last'.op = "Clone" /\ last' # last
           /\ cachedPointerTypes = {} /\ cachedCustomFuncTypes = <<>>
           /\ hist.scalar = {}) =>
             /\ Len(last'.allocs) = 2
             /\ \A i \in 1..2 : last'.allocs[i].how = "new" /\ last'.allocs[i].t = "Node"
             /\ last'.post.mem[last'.val.v + 1].v > last'.base]_vars

\* Clone has cloned both nodes of the list while the allocator made by
\* FromHeap held the scalar mark of Node.
C22_Witness ==
    /\ last.op = "Clone" /\ Len(last.allocs) = 2
    /\ "allocator" \in DOMAIN allocators
    /\ hist.made["allocator"] = AllocatorMethods({}, "", "")
    /\ allocators["allocator"].pool = ""
    /\ "Node" \in DOMAIN allocators["allocator"].cachedStructTypes
    /\ allocators["allocator"].cachedStructTypes["Node"] = zeroStructType

(***************************************************************************)
(* The allocation methods of an allocator made with some of them.          *)
(***************************************************************************)
\* Allocator a calls the method it was made with for op, on its own pool.
Supplied(a, op) ==
    (op \in hist.made[a].ops) => allocators[a][op] = Method(a, allocators[a].pool)

NilKept(t, w, c) ==
    LET k == Kind(t)
        nil == IF k = "Interface" THEN w.t = "" ELSE w.v = 0
    IN (k \in {"Ptr", "Slice", "Map", "Interface"}) =>
        /\ nil => /\ c.v = 0 /\ c.len = 0 /\ c.cap = 0
                  /\ (k = "Interface") => c = NilIface
        /\ ~nil => /\ IF k = "Interface" THEN c.t = w.t ELSE c.v # 0
                   /\ (k = "Slice") => c.len = w.len /\ c.cap = w.cap
                   /\ (k = "Map" /\ last.pre.maps[w.v] = <<>>) =>
                         /\ c.v \notin DOMAIN last.pre.maps
                         /\ last.post.maps[c.v] = <<>>

\* C24: Clone(nil) and Slowly(nil) return nil; the clone of a value holds
\* the type of the value; a nil pointer, slice, map or interface, as the
\* value cloned or as a member of the struct it points to, is nil of its
\* type in the clone, and one that is not nil is not nil in the clone: an
\* empty slice stays an empty slice of its capacity, an empty map an empty
\* map.
C24_NilVsEmpty ==
    (last.op \in {"Clone", "Slowly"} /\ ~last.div) =>
        /\ (src.t = "") => last.val = NilIface
        /\ last.val.t = src.t
        /\ (src.t # "") =>
              NilKept(src.t, src, last.val)
        /\ (SrcStruct # "") =>
              \A i \in DOMAIN Types[SrcStruct].fields :
                  NilKept(Types[SrcStruct].fields[i].type,
                          last.pre.mem[src.v + Offset(SrcStruct, i)],
                          last.post.mem[last.val.v + Offset(SrcStruct, i)])

\* The clone of a Conf with an empty map and an empty slice of capacity 1.
C24_Witness ==
    /\ last.op = "Clone" /\ src = IfaceW("*Conf", PtrW(2))
    /\ last.pre.mem[3] = MapW(5) /\ last.pre.mem[4] = SliceW(6, 0, 1)
    /\ last.post.mem[last.val.v + 1].v > last.base
    /\ last.post.mem[last.val.v + 2].v > last.base
    /\ last.post.mem[last.val.v + 2].cap = 1

(***************************************************************************)
(* Channels.  The source is a channel of capacity c with q elements queued *)
(* (ch := make(chan int, 2) of the tests, and the unbuffered one), the nil *)
(* channel (var nilChan chan bool), or a pointer to a Pipe holding the     *)
(* channel; goroutines send to and receive from the source channel and the *)
(* cloned one between the calls.                                           *)
(***************************************************************************)
MaxChanCap == 2   \* the largest buffer of a source channel
MaxChanOps == 2   \* sends and receives between two calls

\* The channel at 2 with its buffer, then a Pipe holding it.
ChanHeap(c, q) ==
    [mem  |-> <<MapHdr, HChan(q, c)>> \o [i \in 1..c |-> IntW(IF i <= q THEN i ELSE 0)]
                \o <<IntW(7), ChanW(2)>>,
     maps |-> <<>>]

InitChan ==
    /\ \E c \in 0..MaxChanCap, q \in 0..MaxChanCap :
         /\ q <= c
         /\ heap = ChanHeap(c, q)
         /\ src \in {IfaceW("chan int", ChanW(2)), IfaceW("chan bool", ChanW(0)),
                     IfaceW("*Pipe", PtrW(3 + c))}
    /\ InitRest
    /\ hist = NoHist(MaxRegClones)

\* The channel word an interface word holds or, for a *Pipe, points to.
ChanIn(h, w) ==
    IF w.t = "*Pipe" THEN h.mem[w.v + 1] ELSE [w EXCEPT !.k = "chan", !.t = ""]

\* ch <- x on a buffered channel with room: x is queued behind the others.
Send(a, x) ==
    /\ a # 0 /\ heap.mem[a].len < heap.mem[a].cap
    /\ heap' = [heap EXCEPT !.mem[a].len = @ + 1,
                            !.mem[a + heap.mem[a].len + 1] = IntW(x)]

\* <-ch on a channel with elements queued: the first leaves the queue.
Recv(a) ==
    /\ a # 0 /\ heap.mem[a].len > 0
    /\ heap' = [heap EXCEPT !.mem = [i \in DOMAIN @ |->
                    IF i = a THEN [@[a] EXCEPT !.len = @ - 1]
                    ELSE IF i > a /\ i < a + @[a].len THEN @[i + 1]
                    ELSE IF i = a + @[a].len THEN IntW(0)
                    ELSE @[i]]]

\* A goroutine uses the source channel or the channel of the latest clone.
UseChan(w, side) ==
    /\ ~last.div /\ hist.writes < MaxChanOps
    /\ \/ \E x \in {8, 9} : Send(ChanIn(heap, w).v, x)
       \/ Recv(ChanIn(heap, w).v)
    /\ hist' = [hist EXCEPT !.writes = @ + 1,
                            !.side = IF @ \in {"none", side} THEN side ELSE "both"]
    /\ UNCHANGED <<src, goroutines, wrappers, allocators, cachedStructTypes, cachedPointerTypes,
                   cachedCustomFuncTypes, last>>

UseSourceChan == UseChan(src, "source")
UseClonedChan == last.op # "none" /\ UseChan(last.val, "clone")

NextChan == CallClone \/ CallSlowly \/ UseSourceChan \/ UseClonedChan

SpecChan == InitChan /\ [][NextChan]_vars

\* The elements queued in channel ch of heap h.
Queued(h, ch) == IF ch.v = 0 THEN 0 ELSE h.mem[ch.v].len

\* The buffer capacity of channel ch of heap h.
ChanCap(h, ch) == IF ch.v = 0 THEN 0 ELSE h.mem[ch.v].cap

\* C25: after Clone or Slowly of a channel (buffered, unbuffered or nil, held
\* directly or by a Pipe), with any number of elements queued in the source,
\* the clone's channel has the type and the buffer capacity of the source
\* channel, is a channel the call made (not nil, not the source, at no cell
\* that existed before), and has nothing queued and a zeroed buffer.
C25_FreshChan ==
    (last.op # "none" /\ ~last.div) =>
        LET s == ChanIn(last.pre, src)
            c == ChanIn(last.post, last.val)
        IN /\ last.val.t = src.t
           /\ c.k = "chan" /\ c.v # 0 /\ c.v # s.v
           /\ c.v > Len(last.pre.mem)
           /\ last.post.mem[c.v].k = "hchan"
           /\ ChanCap(last.post, c) = ChanCap(last.pre, s)
           /\ Queued(last.post, c) = 0
           /\ \A i \in 1..ChanCap(last.post, c) : last.post.mem[c.v + i] = IntW(0)
           /\ \A a \in 1..Len(last.pre.mem) : last.post.mem[a] = last.pre.mem[a]

\* A buffered channel with two elements queued, one of them sent just
\* before the call, was cloned by Slowly.
C25_Witness ==
    /\ last.op = "Slowly" /\ src.t = "chan int"
    /\ Queued(last.pre, ChanIn(last.pre, src)) = 2
    /\ last.pre.mem[4] = IntW(9)
    /\ Queued(last.post, ChanIn(last.post, last.val)) = 0

(***************************************************************************)
(* The classifier on its own: loadStructType is called for struct types    *)
(* of the program, in any order, between calls of MarkAsScalar and         *)
(* SetCustomFunc on the default allocator.                                 *)
(***************************************************************************)
MaxLoads == 2   \* loadStructType calls in one behaviour

StructTypes == {t \in TypeNames : Kind(t) = "Struct"}

\* The record of st := loadStructType(t), with the registries as they were
\* when it was called.
Classified(t, res) ==
    [op |-> "loadStructType", t |-> t, res |-> res,
     cache |-> cachedStructTypes, funcs |-> cachedCustomFuncTypes] @@ NoCall

\* st := loadStructType(t) on the default allocator
CallLoad(t) ==
    /\ hist.acalls < MaxLoads
    /\ LET r == loadStructType(t, cachedStructTypes, cachedCustomFuncTypes, "IsScalar")
       IN /\ last' = Classified(t, r.st)
          /\ cachedStructTypes' = r.cache
    /\ hist' = [hist EXCEPT !.acalls = @ + 1, !.call = <<>>]
    /\ UNCHANGED <<heap, src, goroutines, wrappers, allocators, cachedPointerTypes, cachedCustomFuncTypes>>

InitType ==
    /\ heap = FooHeap(0)
    /\ src = NilIface
    /\ InitRest
    /\ hist = NoHist(0)

NextType ==
    \/ \E t \in StructTypes : CallLoad(t)
    \/ \E t \in {"Foo", "*Node", "Elem"} : MarkAsScalar(t)
    \/ \E t \in {"Foo", "Node"}, fn \in {"addHundred", "nil"} : SetCustomFunc(t, fn)

SpecType == InitType /\ [][NextType]_vars

RECURSIVE Ascending(_)
\* The numbers of S in ascending order.
Ascending(S) == IF S = {} THEN <<>> ELSE <<Min(S)>> \o Ascending(S \ {Min(S)})

\* The members S of struct type t as structFieldType entries, in ascending
\* member index (0-based, as t.Field(i)) with the member's offset.
FieldList(t, S) ==
    With(Ascending(S), LAMBDA q :
        [n \in 1..Len(q) |-> [Offset |-> FieldsSize(Types[t].fields, q[n] - 1), Index |-> q[n]]])

\* Member type ft is left to the bulk copy, where Plain(s) tells whether the
\* struct type s needs no member-by-member clone.
ElidedBy(ft, Plain(_)) ==
    \/ IsScalar(Kind(ft))
    \/ /\ Kind(ft) = "Array"
       /\ \/ Types[ft].len = 0
          \/ IsScalar(Kind(Types[ft].elem))
          \/ Kind(Types[ft].elem) = "Struct" /\ Plain(Types[ft].elem)
    \/ Kind(ft) = "Struct" /\ Plain(ft)

\* The members of t that ElidedBy does not elide.
ListedBy(t, Plain(_)) ==
    {i \in 1..Len(Types[t].fields) : ~ElidedBy(Types[t].fields[i].type, Plain)}

\* Struct type s classifies to no pointer fields under the registries of the
\* latest call.
NoPointerFields(s) ==
    loadStructType(s, last.cache, last.funcs, "IsScalar").st.PointerFields = <<>>

\* Struct type s classifies to an entry that can be shadow-copied under the
\* registries of the latest call: no pointer fields and no custom function.
ShadowCopied(s) ==
    CanShadowCopy(loadStructType(s, last.cache, last.funcs, "IsScalar").st)

\* Struct type t was marked: MarkAsScalar or SetCustomFunc was called for it.
Marked(t) == t \in hist.scalar \/ t \in DOMAIN last.funcs \/ t \in DOMAIN hist.setBy

\* C26 as stated: for every struct type T not explicitly marked,
\* loadStructType(T).PointerFields is exactly the list, in ascending member
\* index with offsets, of the members that are not scalar, not a zero-length
\* array, not an array of scalars, and not a struct (or array of structs)
\* that classifies to no pointer fields.
C26_ExactList ==
    (last.op = "loadStructType" /\ ~Marked(last.t)) =>
        last.res.PointerFields = FieldList(last.t, ListedBy(last.t, NoPointerFields))

\* C26, amended: when T is not cached yet, loadStructType(T) computes
\* PointerFields as exactly the list, in ascending member index with
\* offsets, of the members that are not scalar, not a zero-length array, not
\* an array of scalars, and not a struct (or array of structs) whose entry
\* has no pointer fields and no custom function; pointer, map, slice,
\* interface and channel members are always listed; the entry carries the
\* custom function registered for T; the call returns for types that point
\* to themselves and stores the entry.  When T is cached the cached entry
\* is returned as it is.
C26_ListedMembers ==
    last.op = "loadStructType" =>
        IF last.t \in DOMAIN last.cache
        THEN last.res = last.cache[last.t]
        ELSE /\ last.res.PointerFields = FieldList(last.t, ListedBy(last.t, ShadowCopied))
             /\ \A i \in 1..Len(Types[last.t].fields) :
                   Kind(Types[last.t].fields[i].type) \in {"Ptr", "Map", "Slice", "Interface", "Chan"}
                       => \E n \in DOMAIN last.res.PointerFields :
                             last.res.PointerFields[n] =
                                 [Offset |-> FieldsSize(Types[last.t].fields, i - 1),
                                  Index |-> i]
             /\ last.res.fn = IF last.t \in DOMAIN last.funcs THEN last.funcs[last.t] ELSE "nil"
             /\ hist.call = <<>> => cachedStructTypes[last.t] = last.res

\* Mixed was classified for the first time with nothing registered: its
\* Node members, its channel and its pointer to itself are listed, and
\* the empty array, the numbers and the Foo members are not.
C26_Witness ==
    /\ last.op = "loadStructType" /\ last.t = "Mixed"
    /\ last.cache = <<>> /\ last.funcs = <<>>
    /\ last.res.PointerFields = <<[Offset |-> 5, Index |-> 5], [Offset |-> 7, Index |-> 6],
                                  [Offset |-> 9, Index |-> 7], [Offset |-> 10, Index |-> 8]>>

(***************************************************************************)
(* Concurrent loadStructType.  Each goroutine calls loadStructType(T) for  *)
(* the same struct type T on the default allocator and runs it one access  *)
(* of shared state at a time: the Load of the cache, one member of the     *)
(* loop (a struct member calls loadStructType for the member's type, on    *)
(* the goroutine's own stack), the Load of the custom function, and the    *)
(* LoadOrStore of the entry.  A goroutine is                               *)
(*   pc     "idle" before the call, "run" inside it, "done" after it       *)
(*   stack  the frames of loadStructType, the innermost last: the type t,  *)
(*          the member i the loop is at, the local pointerFields pf, the   *)
(*          local st, and the statement the frame is at                    *)
(*   ret    the structType the call returned                               *)
(*   seen   the entries the goroutine got from the cache                   *)
(***************************************************************************)
Goroutines == 1..3

Frame0(t) == [t |-> t, i |-> 1, pf |-> <<>>, st |-> zeroStructType, at |-> "Load"]

\* The top frame of goroutine g.
Top(g) == goroutines[g].stack[Len(goroutines[g].stack)]

\* Goroutine g is inside loadStructType at statement `at`.
At(g, at) == goroutines[g].pc = "run" /\ Top(g).at = at

\* The stack with its top frame replaced by f.
SetTop(stack, f) == [stack EXCEPT ![Len(stack)] = f]

\* The struct type loadStructType is called for while looking at a member of
\* type ft ("" when the member needs no call).
CalledFor(ft) ==
    IF IsScalar(Kind(ft)) THEN ""
    ELSE IF Kind(ft) = "Array"
         THEN IF Types[ft].len # 0 /\ Kind(Types[ft].elem) = "Struct" THEN Types[ft].elem ELSE ""
         ELSE IF Kind(ft) = "Struct" THEN ft ELSE ""

\* A member of type ft that needs no call is skipped (continue).
Skipped(ft) ==
    \/ IsScalar(Kind(ft))
    \/ Kind(ft) = "Array" /\ (Types[ft].len = 0 \/ IsScalar(Kind(Types[ft].elem)))

\* Frame f after its member i was skipped or appended.
Advance(f, skip) ==
    [f EXCEPT !.i = @ + 1, !.at = "Loop",
              !.pf = IF skip THEN @ ELSE Append(@, [Offset |-> Offset(f.t, f.i), Index |-> f.i])]

\* The goroutine after its innermost call returned v: the caller's frame
\* goes on with the next member, or the goroutine is done.
Return(gr, v) ==
    IF Len(gr.stack) = 1
    THEN [gr EXCEPT !.pc = "done", !.stack = <<>>, !.ret = v]
    ELSE With(SubSeq(gr.stack, 1, Len(gr.stack) - 1), LAMBDA below :
            [gr EXCEPT !.stack = SetTop(below, Advance(below[Len(below)], CanShadowCopy(v)))])

\* A binding that leaves the custom function out.
Bind_None(st, t, funcs) == st

\* if fn, ok := a.cachedCustomFuncTypes.Load(t); ok { st.fn = fn.(Func) }
Bind(st, t, funcs) == IF t \in DOMAIN funcs THEN [st EXCEPT !.fn = funcs[t]] ELSE st

GoFrame == <<heap, src, wrappers, allocators, cachedPointerTypes, cachedCustomFuncTypes,
             last, hist>>

\* go loadStructType(T)
GoCall(g) ==
    /\ goroutines[g].pc = "idle"
    /\ goroutines' = [goroutines EXCEPT ![g].pc = "run", ![g].stack = <<Frame0(goroutines[g].t)>>]
    /\ UNCHANGED <<GoFrame, cachedStructTypes>>

\* if v, ok := a.cachedStructTypes.Load(t); ok { return v }
GoLoad(g) ==
    /\ At(g, "Load")
    /\ goroutines' =
          IF Top(g).t \in DOMAIN cachedStructTypes
          THEN [goroutines EXCEPT ![g] =
                   Return([@ EXCEPT !.seen = @ \cup {<<Top(g).t, cachedStructTypes[Top(g).t]>>}],
                          cachedStructTypes[Top(g).t])]
          ELSE [goroutines EXCEPT ![g].stack = SetTop(@, [Top(g) EXCEPT !.at = "Loop"])]
    /\ UNCHANGED <<GoFrame, cachedStructTypes>>

\* One round of the loop over the members: the member is skipped, appended,
\* or loadStructType is called for its struct type.
GoMember(g) ==
    /\ At(g, "Loop")
    /\ LET f == Top(g)
       IN goroutines' =
            IF f.i > Len(Types[f.t].fields)
            THEN [goroutines EXCEPT ![g].stack = SetTop(@, [f EXCEPT !.at = "Bind"])]
            ELSE With(Types[f.t].fields[f.i].type, LAMBDA ft :
                 IF CalledFor(ft) # ""
                 THEN [goroutines EXCEPT ![g].stack =
                          Append(SetTop(@, [f EXCEPT !.at = "Call"]), Frame0(CalledFor(ft)))]
                 ELSE [goroutines EXCEPT ![g].stack = SetTop(@, Advance(f, Skipped(ft)))])
    /\ UNCHANGED <<GoFrame, cachedStructTypes>>

\* st = structType{PointerFields: pointerFields}, with the custom function of t
GoBind(g) ==
    /\ At(g, "Bind")
    /\ goroutines' = [goroutines EXCEPT ![g].stack =
                          SetTop(@, [Top(g) EXCEPT !.at = "LoadOrStore",
                                        !.st = Bind(StructType(Top(g).pf, "nil"), Top(g).t,
                                                    cachedCustomFuncTypes)])]
    /\ UNCHANGED <<GoFrame, cachedStructTypes>>

\* a.cachedStructTypes.LoadOrStore(t, st); return
GoStore(g) ==
    /\ At(g, "LoadOrStore")
    /\ cachedStructTypes' = LoadOrStore(cachedStructTypes, Top(g).t, Top(g).st)
    /\ goroutines' = [goroutines EXCEPT ![g] = Return(@, Top(g).st)]
    /\ UNCHANGED GoFrame

\* The registries before the calls: nothing, a custom function for T or for
\* the member type Foo, or the member type Elem marked scalar.
InitRace ==
    /\ heap = FooHeap(0)
    /\ src = NilIface
    /\ cachedPointerTypes = {}
    /\ wrappers = <<>>
    /\ allocators = <<>>
    /\ last = NoCall
    /\ \E T \in {"List", "Mixed", "Node"} :
         /\ goroutines = [g \in Goroutines |->
                            [t |-> T, pc |-> "idle", stack |-> <<>>,
                             ret |-> zeroStructType, seen |-> {}]]
         /\ \/ /\ cachedCustomFuncTypes \in {<<>>, (T :> "addHundred"), ("Foo" :> "addHundred")}
               /\ cachedStructTypes = <<>>
               /\ hist = NoHist(0)
            \/ /\ cachedCustomFuncTypes = <<>>
               /\ cachedStructTypes = ("Elem" :> zeroStructType)
               /\ hist = [NoHist(0) EXCEPT !.scalar = {"Elem"}]

NextRace ==
    \E g \in Goroutines : GoCall(g) \/ GoLoad(g) \/ GoMember(g) \/ GoBind(g) \/ GoStore(g)

SpecRace == InitRace /\ [][NextRace]_vars

\* The complete entry of struct type t under the registries of the
\* behaviour: what one undisturbed loadStructType(t) computes.
Complete(t) ==
    loadStructType(t, [m \in hist.scalar |-> zeroStructType], cachedCustomFuncTypes,
                   "IsScalar").st

\* The goroutines whose call computed the entry itself (the cache had none
\* when they looked).
Computed == {g \in Goroutines : goroutines[g].pc = "done" /\
                                 \A x \in goroutines[g].seen : x[1] # goroutines[g].t}

\* Every entry in the cache, and every entry a goroutine got from the cache,
\* is complete, and every call that returned did so with the entry stored.
StoredIsReturned ==
    /\ \A t \in DOMAIN cachedStructTypes : cachedStructTypes[t] = Complete(t)
    /\ \A g \in Goroutines :
          /\ \A x \in goroutines[g].seen :
                x[1] \in DOMAIN cachedStructTypes /\ x[2] = cachedStructTypes[x[1]]
          /\ goroutines[g].pc = "done" =>
                /\ goroutines[g].t \in DOMAIN cachedStructTypes
                /\ goroutines[g].ret = cachedStructTypes[goroutines[g].t]

\* An entry, once stored, stays as it is: a store for a type that has an
\* entry is discarded.
FirstWins ==
    \A t \in DOMAIN cachedStructTypes :
        t \in DOMAIN cachedStructTypes' /\ cachedStructTypes'[t] = cachedStructTypes[t]

\* C27: in every interleaving of three loadStructType(T) calls for a T that
\* is not cached, the first LoadOrStore for a type stores its entry and
\* every later one is discarded; the cache never holds, and no goroutine
\* ever gets from it, an entry other than the complete one; and every call,
\* whether it computed the entry itself or found it, returns the entry
\* stored.
C27_OneWinner == []StoredIsReturned /\ [][FirstWins]_vars

\* The three calls for Mixed, which has a custom function, returned: two of
\* them computed the entry concurrently and the third found it in the cache.
C27_Witness ==
    /\ \A g \in Goroutines : goroutines[g].pc = "done" /\ goroutines[g].t = "Mixed"
    /\ cachedCustomFuncTypes = ("Mixed" :> "addHundred")
    /\ Cardinality(Computed) = 2
    /\ goroutines[1].ret.fn = "addHundred" /\ Len(goroutines[1].ret.PointerFields) = 4

(***************************************************************************)
(* Two views of one array.  The array of three numbers is at 2..4 and the  *)
(* Views at 5 holds two slices of it, each starting at the first or the    *)
(* second number, with any length and capacity the array allows.           *)
(***************************************************************************)
ArrayLen == 3   \* the numbers in the array the two slices are views of

\* The slices of the array that start at its first or second number:
\* s[lo : lo+n : lo+c] with c > 0.
ViewsOf ==
    {w \in {SliceW(2 + lo, n, c) : lo \in 0..1, n \in 0..ArrayLen, c \in 1..ArrayLen} :
        w.len <= w.cap /\ w.v + w.cap <= 2 + ArrayLen}

ViewsHeap(a, b) ==
    [mem  |-> <<MapHdr>> \o [i \in 1..ArrayLen |-> IntW(i)] \o <<a, b>>,
     maps |-> <<>>]

InitViews ==
    /\ \E a \in ViewsOf, b \in ViewsOf : heap = ViewsHeap(a, b)
    /\ src = IfaceW("*Views", PtrW(2 + ArrayLen))
    /\ InitRest
    /\ hist = NoHist(MaxClones)

SpecViews == InitViews /\ [][Next]_vars

\* The slices a and b of the Views that interface word w of heap h points to.
ViewA(h, w) == h.mem[w.v]
ViewB(h, w) == h.mem[w.v + 1]

\* The cells of the backing array of slice word w.
Backing(w) == w.v..(w.v + w.cap - 1)

\* The visit key of slice word w of type []int.
SliceKey(w) == <<w.v, w.len, "[]int">>

\* Cloned slice word c is what Slowly makes of source slice word s: nil for
\* a nil slice, and otherwise a new backing array with the len(s) first
\* numbers of s.
ClonedView(s, c) ==
    IF s.v = 0 THEN c = s
    ELSE /\ c.v > Len(last.pre.mem)
         /\ c.len = s.len
         /\ \A i \in 0..(s.len - 1) : last.post.mem[c.v + i] = last.pre.mem[s.v + i]

\* What the two cloned slices share after Slowly: one new backing array when
\* the sources have the same base address and the same length, and two
\* separate new backing arrays otherwise.
SharedByKey ==
    LET sa == ViewA(last.pre, src)       sb == ViewB(last.pre, src)
        ca == ViewA(last.post, last.val) cb == ViewB(last.post, last.val)
    IN /\ ClonedView(sa, ca) /\ ClonedView(sb, cb)
       /\ (sa.v # 0 /\ SliceKey(sa) = SliceKey(sb)) => ca.v = cb.v
       /\ (sa.v # 0 /\ sb.v # 0 /\ SliceKey(sa) # SliceKey(sb)) =>
              Backing(ca) \cap Backing(cb) = {}

\* C28 as stated: after Slowly the two cloned slices share one new backing
\* array when the sources have the same base and length and have separate
\* ones when the lengths differ, and each cloned slice has the length and
\* the capacity of its source.
C28_KeepsLenCap ==
    last.op = "Slowly" =>
        /\ SharedByKey
        /\ ViewA(last.post, last.val).cap = ViewA(last.pre, src).cap
        /\ ViewB(last.post, last.val).cap = ViewB(last.pre, src).cap

\* C28, amended: as above, but a cloned slice that shares its backing array
\* is the slice cloned first for the key, so it has the capacity of the
\* first source slice with that base and length, which need not be its own.
C28_FirstCap ==
    last.op = "Slowly" =>
        /\ SharedByKey
        /\ ViewA(last.post, last.val).cap = ViewA(last.pre, src).cap
        /\ ViewB(last.post, last.val).cap =
              IF SliceKey(ViewA(last.pre, src)) = SliceKey(ViewB(last.pre, src))
              THEN ViewA(last.pre, src).cap ELSE ViewB(last.pre, src).cap

\* Slowly cloned a Views whose slices are s[0:2:3] and s[0:2:2]: the clones
\* are one slice of capacity 3.
C28_Witness ==
    /\ last.op = "Slowly"
    /\ ViewA(last.pre, src) = SliceW(2, 2, 3) /\ ViewB(last.pre, src) = SliceW(2, 2, 2)
    /\ ViewA(last.post, last.val) = ViewB(last.post, last.val)
    /\ ViewB(last.post, last.val).cap = 3

\* The state in which the latest call, a Slowly iterating maps in order ord,
\* ended: its visited table, its stack and its allocations.
Ended(ord) == Slowly(last.pre, last.reg.cst, src, ord)

\* Allocation x is the destination of a pointer, a slice or a map (and not
\* the array cloneArray fills and copies out of).
ForReference(x) == ~(x.how = "new" /\ Kind(x.t) = "Array")

\* The entries of visited table vis that hold the destination at address a.
EntriesFor(vis, a) == {k \in DOMAIN vis : vis[k].w[1].v = a}

\* C29: a Slowly call with nothing registered returns for every source, rings
\* included: whenever the traversal comes back to a reference whose referent
\* is being cloned it finds the entry made when the referent was entered.
\* The visited table starts empty and ends with an entry for every
\* destination the call allocated for a pointer, a slice or a map; each
\* entry is keyed by a reference of the source and holds an address this
\* call made, and two source references of one type have different
\* destinations.  Nothing of an
\* earlier call is in the table, so everything reachable from the clone is
\* new, also for the second of two calls on the same value.
C29_EnteredFirst ==
    (last.op = "Slowly" /\ hist.regs = 0) =>
        /\ ~last.div
        /\ \A x \in Targets(last.post, last.val) : x[1] > Len(last.pre.mem)
        /\ \E ord \in {"asc", "desc"} :
              With(Ended(ord), LAMBDA r :
                 /\ r.val = last.val
                 /\ r.st.stack = {}
                 /\ \A i \in DOMAIN r.st.allocs :
                       ForReference(r.st.allocs[i]) =>
                           EntriesFor(r.st.visited, r.st.allocs[i].base) # {}
                 /\ \A k \in DOMAIN r.st.visited :
                       /\ k[1] \in 1..Len(last.pre.mem)
                       /\ r.st.visited[k].w[1].v > Len(last.pre.mem)
                 /\ \A k1, k2 \in DOMAIN r.st.visited :
                       (k1 # k2 /\ k1[3] = k2[3]) =>
                           r.st.visited[k1].w[1].v # r.st.visited[k2].w[1].v)

\* The second of two Slowly calls on the ring of three nodes: the heap holds
\* the source and the first clone, and the call made three nodes more.
C29_Witness ==
    /\ last.op = "Slowly" /\ hist.regs = 0 /\ hist.clones = 2 /\ ~last.div
    /\ RingLen(last.pre, src.v) = 3
    /\ Len(last.pre.mem) = 1 + 2 * MaxNodes + 6
    /\ RingLen(last.post, last.val.v) = 3 /\ last.val.v > Len(last.pre.mem)

\* The struct values the latest call allocated with New.
NewStructs == {i \in DOMAIN last.allocs :
                  last.allocs[i].how = "new" /\ Kind(last.allocs[i].t) = "Struct"}

\* The cells of the value of type t at address a of heap h.
CellsOf(h, a, t) == [i \in 1..Size(t) |-> h.mem[a + i - 1]]

\* The addresses before the latest call at which a value of type t starts.
SourcesOf(t) == 2..(Len(last.pre.mem) - Size(t) + 1)

\* C30: once MarkAsScalar(T) was called on the default allocator, a clone
\* through it invokes no custom function for T, whether SetCustomFunc(T, fn)
\* was called before the mark or after it, and every T it allocates is a
\* bit-for-bit copy of a T of the source; a clone of a pointer to T returns
\* with one such copy.
C30_ScalarFirst ==
    last.op # "none" =>
        \A T \in last.reg.scalar :
            /\ \A i \in DOMAIN last.calls : last.calls[i].t # T
            /\ \A i \in NewStructs :
                  last.allocs[i].t = T =>
                      \E a \in SourcesOf(T) :
                          CellsOf(last.post, last.allocs[i].base, T) = CellsOf(last.pre, a, T)
            /\ (Kind(src.t) = "Ptr" /\ Types[src.t].elem = T /\ src.t \notin last.reg.opaque) =>
                  /\ ~last.div
                  /\ Len(last.allocs) = 1
                  /\ CellsOf(last.post, last.val.v, T) = CellsOf(last.pre, src.v, T)

\* MarkAsScalar(Node), then SetCustomFunc(Node, addHundred), then the first
\* clone of a *Node: the function is registered and was not called, and the
\* clone has the data of the source.
C30_Witness ==
    /\ last.op # "none" /\ hist.clones = 1 /\ src.t = "*Node"
    /\ "Node" \in last.reg.scalar /\ "Node" \in last.reg.lateFunc
    /\ "Node" \in DOMAIN last.reg.funcs /\ last.reg.funcs["Node"] = "addHundred"
    /\ last.calls = <<>>
    /\ last.val.v > last.base /\ last.post.mem[last.val.v] = last.pre.mem[src.v]
====
